---- MODULE Spec2Model ----
(***************************************************************************)
(* State-machine model of the morpho-solana lending program.               *)
(*                                                                         *)
(* One instruction handler = one action.  A handler is an operator that    *)
(* maps the account state ("world") and the instruction arguments to a     *)
(* result record [err, w]; the runtime wrapper Exec installs w on success  *)
(* and rolls the enclosing transaction back on failure.                    *)
(*                                                                         *)
(* Integer widths.  TLC integers are 32-bit, so the 128-bit and 64-bit     *)
(* widths of the program and its three large fixed-point scales are        *)
(* modelled at reduced size: U128_MAX = 2^31-1, MAX_U64 = 2^16-1,          *)
(* WAD = 10^2, ORACLE_SCALE = WAD*WAD, SECONDS_PER_YEAR = 1 (one clock     *)
(* tick is one year).  Every other program constant keeps its source       *)
(* value (VIRTUAL_SHARES = 10^6, BPS = 10^4, ...).  All checked            *)
(* arithmetic tests the bound before it computes, as the Rust checked_*    *)
(* functions do.                                                           *)
(***************************************************************************)
EXTENDS Integers, Sequences, FiniteSets, TLC

VARIABLES protocol, markets, positions, auths, vaults, now, price, last, tx_base, flash,
          steps, calc

vars == <<protocol, markets, positions, auths, vaults, now, price, last, tx_base, flash,
          steps, calc>>

-----------------------------------------------------------------------------
(* constants.rs *)

WAD == 100
ORACLE_SCALE == WAD * WAD
MIN_ORACLE_PRICE == WAD
VIRTUAL_SHARES == 1000000
VIRTUAL_ASSETS == 1
MAX_FEE == 2500
BPS == 10000
MAX_LLTVS == 20
MAX_IRMS == 10
(* Faulty value of MAX_LIF: the cap at twice par. *)
MAX_LIF_uncapped == BPS + BPS

MAX_LIF == 11500
LIF_CURSOR == 3000
LIF_BPS == 10000
SECONDS_PER_YEAR == 1
MAX_BORROW_RATE_PER_SECOND == (WAD * 10) \div SECONDS_PER_YEAR
MAX_U64 == 65535
FLASH_LOAN_FEE_BPS == 5
U128_MAX == 2147483647

-----------------------------------------------------------------------------
(* errors.rs: a Result<u128> is a natural number (Ok) or one of these      *)
(* negative codes (Err).                                                   *)

E_MathOverflow == 0 - 1
E_MathUnderflow == 0 - 2
E_DivisionByZero == 0 - 3
E_AmountOverflow == 0 - 4

IsErr(x) == x < 0

ErrName(x) ==
    CASE x = E_MathOverflow -> "math_overflow"
      [] x = E_MathUnderflow -> "math_underflow"
      [] x = E_DivisionByZero -> "division_by_zero"
      [] x = E_AmountOverflow -> "amount_overflow"
      [] OTHER -> "ok"

-----------------------------------------------------------------------------
(* math/safe_math.rs *)

safe_u128_to_u64(value) == IF value > MAX_U64 THEN E_AmountOverflow ELSE value

checked_add(a, b) == IF a > U128_MAX - b THEN E_MathOverflow ELSE a + b

checked_sub(a, b) == IF b > a THEN E_MathUnderflow ELSE a - b

checked_mul(a, b) ==
    IF a = 0 \/ b = 0 THEN 0
    ELSE IF a > U128_MAX \div b THEN E_MathOverflow ELSE a * b

saturating_sub(a, b) == IF b > a THEN 0 ELSE a - b

min(a, b) == IF a < b THEN a ELSE b

-----------------------------------------------------------------------------
(* Results.  A Rust `?` that fails ends the instruction; the operators     *)
(* below are written in stages, each stage receiving the values the        *)
(* previous one computed, in the order the code computes them.  FirstErr   *)
(* is the first failed result of a run of `?` expressions.                 *)

AnyErr(xs) == \E i \in 1..Len(xs) : IsErr(xs[i])

FirstErr(xs) ==
    xs[CHOOSE i \in 1..Len(xs) : IsErr(xs[i]) /\ \A j \in 1..(i - 1) : ~IsErr(xs[j])]

-----------------------------------------------------------------------------
(* math/wad.rs *)

mul_div_down(a, b, c) ==
    IF c = 0 THEN E_DivisionByZero
    ELSE IF a = 0 \/ b = 0 THEN 0
    ELSE LET product == checked_mul(a, b)
         IN  IF IsErr(product) THEN product ELSE product \div c

mul_div_up_sum(sum, c) == IF IsErr(sum) THEN sum ELSE sum \div c

mul_div_up(a, b, c) ==
    IF c = 0 THEN E_DivisionByZero
    ELSE IF a = 0 \/ b = 0 THEN 0
    ELSE LET product == checked_mul(a, b)
         IN  IF IsErr(product) THEN product
             ELSE mul_div_up_sum(checked_add(product, c - 1), c)

wad_mul_down(a, b) == mul_div_down(a, b, WAD)

w_taylor_sum(result, third_term) ==
    IF IsErr(result) THEN result ELSE checked_add(result, third_term)

w_taylor_third(rt, second_term, rt_cubed_over_wad) ==
    IF IsErr(rt_cubed_over_wad) THEN rt_cubed_over_wad
    ELSE w_taylor_sum(checked_add(rt, second_term), rt_cubed_over_wad \div 6)

w_taylor_second(rt, rt_squared) ==
    IF IsErr(rt_squared) THEN rt_squared
    ELSE w_taylor_third(rt, rt_squared \div 2, wad_mul_down(rt_squared, rt))

w_taylor_first(rt) ==
    IF IsErr(rt) THEN rt
    ELSE IF rt = 0 THEN 0
    ELSE w_taylor_second(rt, wad_mul_down(rt, rt))

w_taylor_compounded(rate, time) == w_taylor_first(checked_mul(rate, time))

-----------------------------------------------------------------------------
(* math/shares.rs *)

(* Faulty variant of to_shares_down: the virtual share offset is dropped    *)
(* (one unit in its place).                                                *)
to_shares_down_unit_offset(assets, total_assets, total_shares) ==
    LET s == checked_add(total_shares, VIRTUAL_ASSETS)
        a == checked_add(total_assets, VIRTUAL_ASSETS)
    IN  IF IsErr(s) THEN s ELSE IF IsErr(a) THEN a ELSE mul_div_down(assets, s, a)

to_shares_down(assets, total_assets, total_shares) ==
    LET s == checked_add(total_shares, VIRTUAL_SHARES)
        a == checked_add(total_assets, VIRTUAL_ASSETS)
    IN  IF IsErr(s) THEN s ELSE IF IsErr(a) THEN a ELSE mul_div_down(assets, s, a)

(* Faulty variant of to_shares_up: the quotient is rounded down.            *)
to_shares_up_floor(assets, total_assets, total_shares) ==
    LET s == checked_add(total_shares, VIRTUAL_SHARES)
        a == checked_add(total_assets, VIRTUAL_ASSETS)
    IN  IF IsErr(s) THEN s ELSE IF IsErr(a) THEN a ELSE mul_div_down(assets, s, a)

to_shares_up(assets, total_assets, total_shares) ==
    LET s == checked_add(total_shares, VIRTUAL_SHARES)
        a == checked_add(total_assets, VIRTUAL_ASSETS)
    IN  IF IsErr(s) THEN s ELSE IF IsErr(a) THEN a ELSE mul_div_up(assets, s, a)

to_assets_down(shares, total_assets, total_shares) ==
    LET a == checked_add(total_assets, VIRTUAL_ASSETS)
        s == checked_add(total_shares, VIRTUAL_SHARES)
    IN  IF IsErr(a) THEN a ELSE IF IsErr(s) THEN s ELSE mul_div_down(shares, a, s)

to_assets_up(shares, total_assets, total_shares) ==
    LET a == checked_add(total_assets, VIRTUAL_ASSETS)
        s == checked_add(total_shares, VIRTUAL_SHARES)
    IN  IF IsErr(a) THEN a ELSE IF IsErr(s) THEN s ELSE mul_div_up(shares, a, s)

-----------------------------------------------------------------------------
(* interfaces/irm.rs *)

borrow_rate_yearly(yearly_rate) ==
    IF IsErr(yearly_rate) THEN yearly_rate
    ELSE min(yearly_rate \div SECONDS_PER_YEAR, MAX_BORROW_RATE_PER_SECOND)

borrow_rate_variable(base_rate, variable_rate) ==
    IF IsErr(variable_rate) THEN variable_rate
    ELSE borrow_rate_yearly(checked_add(base_rate, variable_rate))

borrow_rate_utilization(utilization) ==
    IF IsErr(utilization) THEN utilization
    ELSE borrow_rate_variable(WAD \div 20,
                              wad_mul_down(utilization, (WAD * 15) \div 100))

get_borrow_rate_internal(total_supply_assets, total_borrow_assets) ==
    IF total_supply_assets = 0 THEN 0
    ELSE borrow_rate_utilization(
             mul_div_down(total_borrow_assets, WAD, total_supply_assets))

-----------------------------------------------------------------------------
(* math/interest.rs *)

AccrualResult(market, interest, fee_shares) ==
    [err |-> "ok", market |-> market, interest |-> interest, fee_shares |-> fee_shares]

AccrualErr(x) == [err |-> ErrName(x)]

(* grown: the market with interest added to both totals and the clock      *)
(* stamped                                                                 *)
accrue_fee_mint(grown, interest, fee_shares, tss, pending) ==
    IF AnyErr(<<fee_shares, tss, pending>>)
    THEN AccrualErr(FirstErr(<<fee_shares, tss, pending>>))
    ELSE AccrualResult([grown EXCEPT !.total_supply_shares = tss,
                                    !.pending_fee_shares = pending],
                       interest, fee_shares)

(* Faulty variant of accrue_fee_shares: the fee shares are tracked as       *)
(* pending but not added to total_supply_shares.                           *)
accrue_fee_shares_unminted(grown, interest, fee_shares) ==
    accrue_fee_mint(grown, interest, fee_shares, grown.total_supply_shares,
                    checked_add(grown.pending_fee_shares, fee_shares))

accrue_fee_shares(grown, interest, fee_shares) ==
    IF IsErr(fee_shares) THEN AccrualErr(fee_shares) ELSE
    accrue_fee_mint(grown, interest, fee_shares,
                    checked_add(grown.total_supply_shares, fee_shares),
                    checked_add(grown.pending_fee_shares, fee_shares))

(* Faulty variant of accrue_fee_base: the fee shares are priced on the      *)
(* supply assets with the fee still in them.                               *)
accrue_fee_base_fee_included(grown, interest, fee_amount, before_fee) ==
    IF IsErr(before_fee) THEN AccrualErr(before_fee)
    ELSE accrue_fee_shares(grown, interest,
                           to_shares_down(fee_amount, grown.total_supply_assets,
                                          grown.total_supply_shares))

accrue_fee_base(grown, interest, fee_amount, before_fee) ==
    IF IsErr(before_fee) THEN AccrualErr(before_fee)
    ELSE accrue_fee_shares(grown, interest,
                           to_shares_down(fee_amount, before_fee,
                                          grown.total_supply_shares))

accrue_fee(grown, interest, fee_amount) ==
    IF IsErr(fee_amount) THEN AccrualErr(fee_amount)
    ELSE IF ~(fee_amount > 0) THEN AccrualResult(grown, interest, 0)
    ELSE accrue_fee_base(grown, interest, fee_amount,
                         checked_sub(grown.total_supply_assets, fee_amount))

(* Faulty variant of accrue_totals: the interest is added to the borrow    *)
(* side only.                                                              *)
accrue_totals_borrow_only(market, current_time, interest, tba, tsa) ==
    IF IsErr(tba) THEN AccrualErr(tba)
    ELSE AccrualResult([market EXCEPT !.last_update = current_time,
                                      !.total_borrow_assets = tba],
                       interest, 0)

accrue_totals(market, current_time, interest, tba, tsa) ==
    IF AnyErr(<<tba, tsa>>) THEN AccrualErr(FirstErr(<<tba, tsa>>))
    ELSE LET grown == [market EXCEPT !.last_update = current_time,
                                     !.total_borrow_assets = tba,
                                     !.total_supply_assets = tsa]
         IN  IF ~(market.fee > 0) THEN AccrualResult(grown, interest, 0)
             ELSE accrue_fee(grown, interest, mul_div_down(interest, market.fee, BPS))

(* Faulty variant of accrue_interest: an accrual without interest leaves   *)
(* last_update where it was.                                               *)
accrue_interest_unstamped(market, current_time, interest) ==
    IF IsErr(interest) THEN AccrualErr(interest)
    ELSE IF interest = 0 THEN AccrualResult(market, 0, 0)
    ELSE accrue_totals(market, current_time, interest,
                       checked_add(market.total_borrow_assets, interest),
                       checked_add(market.total_supply_assets, interest))

accrue_interest(market, current_time, interest) ==
    IF IsErr(interest) THEN AccrualErr(interest)
    ELSE IF interest = 0
    THEN AccrualResult([market EXCEPT !.last_update = current_time], 0, 0)
    ELSE accrue_totals(market, current_time, interest,
                       checked_add(market.total_borrow_assets, interest),
                       checked_add(market.total_supply_assets, interest))

accrue_factor(market, current_time, interest_factor) ==
    IF IsErr(interest_factor) THEN AccrualErr(interest_factor)
    ELSE accrue_interest(market, current_time,
                         wad_mul_down(market.total_borrow_assets, interest_factor))

(* Faulty variant of accrue_interest_on_market: no early return when the    *)
(* clock is not past last_update.                                          *)
accrue_interest_on_market_unguarded(market, current_time, borrow_rate) ==
    IF current_time - market.last_update = 0 \/ market.total_borrow_assets = 0
    THEN AccrualResult([market EXCEPT !.last_update = current_time], 0, 0)
    ELSE accrue_factor(market, current_time,
                       w_taylor_compounded(borrow_rate,
                                           current_time - market.last_update))

accrue_interest_on_market(market, current_time, borrow_rate) ==
    IF current_time <= market.last_update THEN AccrualResult(market, 0, 0)
    ELSE IF current_time - market.last_update = 0 \/ market.total_borrow_assets = 0
    THEN AccrualResult([market EXCEPT !.last_update = current_time], 0, 0)
    ELSE accrue_factor(market, current_time,
                       w_taylor_compounded(borrow_rate,
                                           current_time - market.last_update))

(* The accrual every handler starts with: rate from the IRM on the stored  *)
(* totals, then accrue_interest_on_market at the clock.                   *)
accrue_at_rate(market, current_time, borrow_rate) ==
    IF IsErr(borrow_rate) THEN AccrualErr(borrow_rate)
    ELSE accrue_interest_on_market(market, current_time, borrow_rate)

accrue(market, current_time) ==
    accrue_at_rate(market, current_time,
                   get_borrow_rate_internal(market.total_supply_assets,
                                            market.total_borrow_assets))

-----------------------------------------------------------------------------
(* interfaces/oracle.rs: the file is not part of the sources at hand; the  *)
(* definitions below follow the written specification of the oracle        *)
(* contract, the solvency check, the liquidation incentive and the         *)
(* bad-debt socialization.                                                 *)

max_oracle_price == 4 * ORACLE_SCALE

oracle_price_valid(p) == MIN_ORACLE_PRICE <= p /\ p <= max_oracle_price

get_oracle_price_validated(p) ==
    IF oracle_price_valid(p) THEN [err |-> "ok", v |-> p]
    ELSE [err |-> "oracle_invalid_price"]

is_liquidatable_compare(borrow_value, max_borrow) ==
    IF AnyErr(<<borrow_value, max_borrow>>)
    THEN [err |-> ErrName(FirstErr(<<borrow_value, max_borrow>>))]
    ELSE [err |-> "ok", v |-> borrow_value > max_borrow]

is_liquidatable_values(borrow_assets, collateral_value, lltv) ==
    IF AnyErr(<<borrow_assets, collateral_value>>)
    THEN [err |-> ErrName(FirstErr(<<borrow_assets, collateral_value>>))]
    ELSE is_liquidatable_compare(checked_mul(borrow_assets, ORACLE_SCALE),
                                 mul_div_down(collateral_value, lltv, BPS))

is_liquidatable(collateral, borrow_shares, total_borrow_assets, total_borrow_shares, oracle_price, lltv) ==
    is_liquidatable_values(
        to_assets_up(borrow_shares, total_borrow_assets, total_borrow_shares),
        checked_mul(collateral, oracle_price), lltv)

calculate_lif(lltv) ==
    LET denominator == BPS - (LIF_CURSOR * (BPS - lltv)) \div BPS
        lif == (BPS * BPS) \div denominator
    IN  IF lif > MAX_LIF THEN MAX_LIF ELSE IF lif < BPS THEN BPS ELSE lif

calculate_seized_scaled(scaled, lif, denominator) ==
    IF AnyErr(<<scaled, denominator>>) THEN FirstErr(<<scaled, denominator>>)
    ELSE mul_div_up(scaled, lif, denominator)

calculate_seized_collateral(seized_assets, oracle_price, lif) ==
    calculate_seized_scaled(checked_mul(seized_assets, ORACLE_SCALE), lif,
                            checked_mul(oracle_price, LIF_BPS))

(* Faulty variant of socialize_bad_debt_totals: the written-off shares stay *)
(* in total_borrow_shares.                                                 *)
socialize_bad_debt_totals_shares_kept(market, bad_debt, tsa, tbs) ==
    IF AnyErr(<<bad_debt, tsa, tbs>>)
    THEN [err |-> ErrName(FirstErr(<<bad_debt, tsa, tbs>>))]
    ELSE [err |-> "ok", bad_debt |-> bad_debt,
          market |-> [market EXCEPT !.total_supply_assets = tsa,
                                    !.total_borrow_assets =
                                        saturating_sub(market.total_borrow_assets,
                                                       bad_debt)]]

socialize_bad_debt_totals(market, bad_debt, tsa, tbs) ==
    IF AnyErr(<<bad_debt, tsa, tbs>>)
    THEN [err |-> ErrName(FirstErr(<<bad_debt, tsa, tbs>>))]
    ELSE [err |-> "ok", bad_debt |-> bad_debt,
          market |-> [market EXCEPT !.total_supply_assets = tsa,
                                    !.total_borrow_shares = tbs,
                                    !.total_borrow_assets =
                                        saturating_sub(market.total_borrow_assets,
                                                       bad_debt)]]

socialize_bad_debt_amount(market, remaining_shares, bad_debt) ==
    socialize_bad_debt_totals(market, bad_debt,
                              checked_sub(market.total_supply_assets, bad_debt),
                              checked_sub(market.total_borrow_shares, remaining_shares))

socialize_bad_debt(market, remaining_shares) ==
    socialize_bad_debt_amount(market, remaining_shares,
                              to_assets_up(remaining_shares, market.total_borrow_assets,
                                           market.total_borrow_shares))

-----------------------------------------------------------------------------
(* Accounts.  A market is identified by its parameter tuple (the keccak    *)
(* hash of state/market.rs is injective on it); a position by             *)
(* <<market_id, owner>>; an authorization by <<authorizer, authorized>>.   *)
(* An account that does not exist is outside the function's domain.        *)
(* log lists, in the order the handler performs them, the account writes   *)
(* ("write") and the token transfers ("transfer") of the instruction that   *)
(* runs on the accounts; it is empty when the instruction begins.          *)

DefaultPubkey == "default"

calculate_market_id(collateral_mint, loan_mint, oracle, irm, lltv) ==
    <<collateral_mint, loan_mint, oracle, irm, lltv>>

World == [protocol |-> protocol, markets |-> markets, positions |-> positions,
          auths |-> auths, vaults |-> vaults, log |-> <<>>]

Fail(e) == [err |-> e]

Ok(w) == [err |-> "ok", w |-> w]

SetMarket(w, m, market) ==
    [w EXCEPT !.markets[m] = market, !.log = Append(@, "write")]

SetPosition(w, k, position) ==
    [w EXCEPT !.positions[k] = position, !.log = Append(@, "write")]

(* transfer_checked, user -> vault: the user is assumed to hold the tokens *)
TransferIn(w, m, which, amount) ==
    [w EXCEPT !.vaults[m][which] = @ + amount, !.log = Append(@, "transfer")]

(* transfer_checked, vault -> user: the token program fails the transfer   *)
(* when the vault holds less than the amount                               *)
CanTransferOut(w, m, which, amount) == w.vaults[m][which] >= amount

(* Faulty variant of TransferOut: the vault address does not depend on the  *)
(* market, so the tokens leave the vault of every market.                  *)
TransferOut_shared_vault(w, m, which, amount) ==
    [w EXCEPT !.vaults = [x \in DOMAIN w.vaults |->
                             [w.vaults[x] EXCEPT ![which] = @ - amount]],
              !.log = Append(@, "transfer")]

TransferOut(w, m, which, amount) ==
    [w EXCEPT !.vaults[m][which] = @ - amount, !.log = Append(@, "transfer")]

-----------------------------------------------------------------------------
(* state/authorization.rs *)

(* Faulty variant of is_valid: the expiry is not looked at.                *)
is_valid_ignoring_expiry(auth, current_time) == auth.is_authorized /\ ~auth.is_revoked

is_valid(auth, current_time) ==
    /\ auth.is_authorized
    /\ ~auth.is_revoked
    /\ (auth.expires_at = 0 \/ current_time < auth.expires_at)

NoAuthorization == <<>>

(* Faulty variant of validate_authorization: the authorization account is  *)
(* matched to owner and caller but its validity is not looked at.          *)
validate_authorization_unvalidated(w, current_time, caller, owner, authorization) ==
    IF caller = owner THEN TRUE
    ELSE IF authorization # NoAuthorization
         THEN /\ w.auths[authorization].authorizer = owner
              /\ w.auths[authorization].authorized = caller
         ELSE FALSE

(* instructions/supply.rs, instructions/borrow.rs: validate_authorization. *)
(* authorization is NoAuthorization (None) or the key of an existing       *)
(* Authorization account.                                                  *)
validate_authorization(w, current_time, caller, owner, authorization) ==
    IF caller = owner THEN TRUE
    ELSE IF authorization # NoAuthorization
         THEN /\ w.auths[authorization].authorizer = owner
              /\ w.auths[authorization].authorized = caller
              /\ is_valid(w.auths[authorization], current_time)
         ELSE FALSE

-----------------------------------------------------------------------------
(* state/market.rs *)

available_liquidity(market) ==
    LET d == checked_sub(market.total_supply_assets, market.total_borrow_assets)
    IN  IF IsErr(d) THEN 0 ELSE d

is_flash_loan_active(market) == market.flash_loan_lock # 0

-----------------------------------------------------------------------------
(* instructions/supply.rs *)

(* Faulty variant of supply_commit: the shares are added to the market's    *)
(* total but not credited to the position.                                 *)
supply_commit_uncredited(w, m, on_behalf_of, market, position, tsa, tss, ps, amount_u64) ==
    IF AnyErr(<<tsa, tss, ps, amount_u64>>)
    THEN Fail(ErrName(FirstErr(<<tsa, tss, ps, amount_u64>>))) ELSE
    Ok(TransferIn(
         SetMarket(w, m, [market EXCEPT !.total_supply_assets = tsa,
                                        !.total_supply_shares = tss]),
         m, "loan", amount_u64))

supply_commit(w, m, on_behalf_of, market, position, tsa, tss, ps, amount_u64) ==
    IF AnyErr(<<tsa, tss, ps, amount_u64>>)
    THEN Fail(ErrName(FirstErr(<<tsa, tss, ps, amount_u64>>)))
    ELSE Ok(TransferIn(
              SetPosition(
                SetMarket(w, m, [market EXCEPT !.total_supply_assets = tsa,
                                               !.total_supply_shares = tss]),
                <<m, on_behalf_of>>, [position EXCEPT !.supply_shares = ps]),
              m, "loan", amount_u64))

(* Faulty variant of supply_shares: the shares must exceed min_shares.      *)
supply_shares_strict(w, m, on_behalf_of, assets, min_shares, market, position, shares) ==
    IF IsErr(shares) THEN Fail(ErrName(shares)) ELSE
    IF ~(shares > min_shares) THEN Fail("slippage_exceeded") ELSE
    supply_commit(w, m, on_behalf_of, market, position,
                  checked_add(market.total_supply_assets, assets),
                  checked_add(market.total_supply_shares, shares),
                  checked_add(position.supply_shares, shares),
                  safe_u128_to_u64(assets))

supply_shares(w, m, on_behalf_of, assets, min_shares, market, position, shares) ==
    IF IsErr(shares) THEN Fail(ErrName(shares)) ELSE
    IF ~(shares >= min_shares) THEN Fail("slippage_exceeded") ELSE
    supply_commit(w, m, on_behalf_of, market, position,
                  checked_add(market.total_supply_assets, assets),
                  checked_add(market.total_supply_shares, shares),
                  checked_add(position.supply_shares, shares),
                  safe_u128_to_u64(assets))

(* Faulty variant of supply_accrued: the shares are computed on the totals  *)
(* stored before the accrual.                                              *)
supply_accrued_stale(w, m, on_behalf_of, assets, min_shares, acc) ==
    IF acc.err # "ok" THEN Fail(acc.err) ELSE
    supply_shares(w, m, on_behalf_of, assets, min_shares, acc.market,
                  w.positions[<<m, on_behalf_of>>],
                  to_shares_down(assets, w.markets[m].total_supply_assets,
                                 w.markets[m].total_supply_shares))

supply_accrued(w, m, on_behalf_of, assets, min_shares, acc) ==
    IF acc.err # "ok" THEN Fail(acc.err) ELSE
    supply_shares(w, m, on_behalf_of, assets, min_shares, acc.market,
                  w.positions[<<m, on_behalf_of>>],
                  to_shares_down(assets, acc.market.total_supply_assets,
                                 acc.market.total_supply_shares))

supply(w, t, m, on_behalf_of, assets, min_shares) ==
    IF w.protocol.paused THEN Fail("protocol_paused") ELSE
    IF w.markets[m].paused THEN Fail("market_paused") ELSE
    IF ~(assets > 0) THEN Fail("zero_amount") ELSE
    supply_accrued(w, m, on_behalf_of, assets, min_shares, accrue(w.markets[m], t))

withdraw_commit(w, m, owner, market, position, ps, tsa, tss, amount_u64) ==
    IF AnyErr(<<ps, tsa, tss, amount_u64>>)
    THEN Fail(ErrName(FirstErr(<<ps, tsa, tss, amount_u64>>))) ELSE
    IF ~CanTransferOut(w, m, "loan", amount_u64) THEN Fail("insufficient_funds") ELSE
    Ok(TransferOut(
         SetPosition(
           SetMarket(w, m, [market EXCEPT !.total_supply_assets = tsa,
                                          !.total_supply_shares = tss]),
           <<m, owner>>, [position EXCEPT !.supply_shares = ps]),
         m, "loan", amount_u64))

withdraw_amounts(w, m, owner, market, position, withdraw_assets, burn_shares) ==
    IF AnyErr(<<withdraw_assets, burn_shares>>)
    THEN Fail(ErrName(FirstErr(<<withdraw_assets, burn_shares>>))) ELSE
    IF ~(position.supply_shares >= burn_shares) THEN Fail("insufficient_balance") ELSE
    IF ~(withdraw_assets <= available_liquidity(market))
    THEN Fail("insufficient_liquidity") ELSE
    withdraw_commit(w, m, owner, market, position,
                    checked_sub(position.supply_shares, burn_shares),
                    checked_sub(market.total_supply_assets, withdraw_assets),
                    checked_sub(market.total_supply_shares, burn_shares),
                    safe_u128_to_u64(withdraw_assets))

withdraw_accrued(w, m, owner, assets, shares, acc) ==
    IF acc.err # "ok" THEN Fail(acc.err) ELSE
    IF assets > 0
    THEN withdraw_amounts(w, m, owner, acc.market, w.positions[<<m, owner>>], assets,
                          to_shares_up(assets, acc.market.total_supply_assets,
                                       acc.market.total_supply_shares))
    ELSE withdraw_amounts(w, m, owner, acc.market, w.positions[<<m, owner>>],
                          to_assets_down(shares, acc.market.total_supply_assets,
                                         acc.market.total_supply_shares),
                          shares)

withdraw(w, t, caller, m, owner, authorization, assets, shares) ==
    IF w.protocol.paused THEN Fail("protocol_paused") ELSE
    IF w.markets[m].paused THEN Fail("market_paused") ELSE
    IF ~(assets > 0 \/ shares > 0) THEN Fail("zero_amount") ELSE
    IF assets > 0 /\ shares > 0 THEN Fail("invalid_input") ELSE
    IF ~validate_authorization(w, t, caller, owner, authorization)
    THEN Fail("unauthorized") ELSE
    withdraw_accrued(w, m, owner, assets, shares, accrue(w.markets[m], t))

-----------------------------------------------------------------------------
(* instructions/borrow.rs *)

supply_collateral_commit(w, m, on_behalf_of, position, c, amount_u64) ==
    IF AnyErr(<<c, amount_u64>>) THEN Fail(ErrName(FirstErr(<<c, amount_u64>>))) ELSE
    Ok(TransferIn(
         SetPosition(w, <<m, on_behalf_of>>, [position EXCEPT !.collateral = c]),
         m, "collateral", amount_u64))

supply_collateral(w, m, on_behalf_of, amount) ==
    IF w.protocol.paused THEN Fail("protocol_paused") ELSE
    IF w.markets[m].paused THEN Fail("market_paused") ELSE
    IF ~(amount > 0) THEN Fail("zero_amount") ELSE
    supply_collateral_commit(w, m, on_behalf_of, w.positions[<<m, on_behalf_of>>],
                             checked_add(w.positions[<<m, on_behalf_of>>].collateral,
                                         amount),
                             safe_u128_to_u64(amount))

withdraw_collateral_commit(w, m, owner, market, position, c, amount_u64) ==
    IF IsErr(amount_u64) THEN Fail(ErrName(amount_u64)) ELSE
    IF ~CanTransferOut(w, m, "collateral", amount_u64) THEN Fail("insufficient_funds") ELSE
    Ok(TransferOut(
         SetPosition(SetMarket(w, m, market),
                     <<m, owner>>, [position EXCEPT !.collateral = c]),
         m, "collateral", amount_u64))

withdraw_collateral_health(w, m, owner, amount, market, position, c, liq) ==
    IF liq.err # "ok" THEN Fail(liq.err) ELSE
    IF liq.v THEN Fail("position_unhealthy") ELSE
    withdraw_collateral_commit(w, m, owner, market, position, c,
                               safe_u128_to_u64(amount))

withdraw_collateral_price(w, m, owner, amount, market, position, c, oracle_price) ==
    IF oracle_price.err # "ok" THEN Fail(oracle_price.err) ELSE
    withdraw_collateral_health(w, m, owner, amount, market, position, c,
        is_liquidatable(c, position.borrow_shares, market.total_borrow_assets,
                        market.total_borrow_shares, oracle_price.v, market.lltv))

withdraw_collateral_taken(w, p, m, owner, amount, market, position, c) ==
    IF IsErr(c) THEN Fail(ErrName(c)) ELSE
    IF position.borrow_shares > 0
    THEN withdraw_collateral_price(w, m, owner, amount, market, position, c,
                                   get_oracle_price_validated(p))
    ELSE withdraw_collateral_commit(w, m, owner, market, position, c,
                                    safe_u128_to_u64(amount))

withdraw_collateral_accrued(w, p, m, owner, amount, acc, position) ==
    IF acc.err # "ok" THEN Fail(acc.err) ELSE
    IF ~(position.collateral >= amount) THEN Fail("insufficient_collateral") ELSE
    withdraw_collateral_taken(w, p, m, owner, amount, acc.market, position,
                              checked_sub(position.collateral, amount))

withdraw_collateral(w, t, p, caller, m, owner, authorization, amount) ==
    IF w.protocol.paused THEN Fail("protocol_paused") ELSE
    IF w.markets[m].paused THEN Fail("market_paused") ELSE
    IF ~(amount > 0) THEN Fail("zero_amount") ELSE
    IF ~validate_authorization(w, t, caller, owner, authorization)
    THEN Fail("unauthorized") ELSE
    withdraw_collateral_accrued(w, p, m, owner, amount, accrue(w.markets[m], t),
                                w.positions[<<m, owner>>])

borrow_commit(w, m, owner, market, position, bs, tba, tbs, amount_u64) ==
    IF IsErr(amount_u64) THEN Fail(ErrName(amount_u64)) ELSE
    IF ~CanTransferOut(w, m, "loan", amount_u64) THEN Fail("insufficient_funds") ELSE
    Ok(TransferOut(
         SetPosition(
           SetMarket(w, m, [market EXCEPT !.total_borrow_assets = tba,
                                          !.total_borrow_shares = tbs]),
           <<m, owner>>, [position EXCEPT !.borrow_shares = bs]),
         m, "loan", amount_u64))

(* Faulty variant of borrow_health: the result of the solvency check is    *)
(* ignored.                                                                *)
borrow_health_skipped(w, m, owner, assets, market, position, bs, tba, tbs, liq) ==
    borrow_commit(w, m, owner, market, position, bs, tba, tbs, safe_u128_to_u64(assets))

borrow_health(w, m, owner, assets, market, position, bs, tba, tbs, liq) ==
    IF liq.err # "ok" THEN Fail(liq.err) ELSE
    IF liq.v THEN Fail("position_unhealthy") ELSE
    borrow_commit(w, m, owner, market, position, bs, tba, tbs, safe_u128_to_u64(assets))

borrow_price(w, m, owner, assets, market, position, bs, tba, tbs, oracle_price) ==
    IF oracle_price.err # "ok" THEN Fail(oracle_price.err) ELSE
    borrow_health(w, m, owner, assets, market, position, bs, tba, tbs,
                  is_liquidatable(position.collateral, bs, tba, tbs, oracle_price.v,
                                  market.lltv))

borrow_effects(w, p, m, owner, assets, market, position, bs, tba, tbs) ==
    IF AnyErr(<<bs, tba, tbs>>) THEN Fail(ErrName(FirstErr(<<bs, tba, tbs>>))) ELSE
    borrow_price(w, m, owner, assets, market, position, bs, tba, tbs,
                 get_oracle_price_validated(p))

borrow_shares(w, p, m, owner, assets, max_shares, market, position, shares) ==
    IF IsErr(shares) THEN Fail(ErrName(shares)) ELSE
    IF max_shares > 0 /\ ~(shares <= max_shares) THEN Fail("slippage_exceeded") ELSE
    borrow_effects(w, p, m, owner, assets, market, position,
                   checked_add(position.borrow_shares, shares),
                   checked_add(market.total_borrow_assets, assets),
                   checked_add(market.total_borrow_shares, shares))

borrow_accrued(w, p, m, owner, assets, max_shares, acc) ==
    IF acc.err # "ok" THEN Fail(acc.err) ELSE
    IF ~(assets <= available_liquidity(acc.market)) THEN Fail("insufficient_liquidity") ELSE
    borrow_shares(w, p, m, owner, assets, max_shares, acc.market,
                  w.positions[<<m, owner>>],
                  to_shares_up(assets, acc.market.total_borrow_assets,
                               acc.market.total_borrow_shares))

borrow(w, t, p, caller, m, owner, authorization, assets, max_shares) ==
    IF w.protocol.paused THEN Fail("protocol_paused") ELSE
    IF w.markets[m].paused THEN Fail("market_paused") ELSE
    IF ~(assets > 0) THEN Fail("zero_amount") ELSE
    IF ~validate_authorization(w, t, caller, owner, authorization)
    THEN Fail("unauthorized") ELSE
    borrow_accrued(w, p, m, owner, assets, max_shares, accrue(w.markets[m], t))

repay_commit(w, m, on_behalf_of, market, position, bs, tba, tbs, amount_u64) ==
    IF AnyErr(<<bs, tba, tbs, amount_u64>>)
    THEN Fail(ErrName(FirstErr(<<bs, tba, tbs, amount_u64>>))) ELSE
    Ok(TransferIn(
         SetPosition(
           SetMarket(w, m, [market EXCEPT !.total_borrow_assets = tba,
                                          !.total_borrow_shares = tbs]),
           <<m, on_behalf_of>>, [position EXCEPT !.borrow_shares = bs]),
         m, "loan", amount_u64))

repay_amounts(w, m, on_behalf_of, market, position, repay_assets, burn_shares) ==
    IF IsErr(repay_assets) THEN Fail(ErrName(repay_assets)) ELSE
    IF ~(burn_shares > 0) THEN Fail("zero_amount") ELSE
    repay_commit(w, m, on_behalf_of, market, position,
                 checked_sub(position.borrow_shares, burn_shares),
                 checked_sub(market.total_borrow_assets, repay_assets),
                 checked_sub(market.total_borrow_shares, burn_shares),
                 safe_u128_to_u64(repay_assets))

(* Faulty variant of repay_shares: the shares are not clamped to what the   *)
(* position owes.                                                          *)
repay_shares_unclamped(w, m, on_behalf_of, market, position, s) ==
    IF IsErr(s) THEN Fail(ErrName(s)) ELSE
    repay_amounts(w, m, on_behalf_of, market, position,
                  to_assets_up(s, market.total_borrow_assets, market.total_borrow_shares),
                  s)

repay_shares(w, m, on_behalf_of, market, position, s) ==
    IF IsErr(s) THEN Fail(ErrName(s)) ELSE
    repay_amounts(w, m, on_behalf_of, market, position,
                  to_assets_up(min(s, position.borrow_shares),
                               market.total_borrow_assets, market.total_borrow_shares),
                  min(s, position.borrow_shares))

repay_accrued(w, m, on_behalf_of, assets, shares, acc) ==
    IF acc.err # "ok" THEN Fail(acc.err) ELSE
    repay_shares(w, m, on_behalf_of, acc.market, w.positions[<<m, on_behalf_of>>],
                 IF assets > 0
                 THEN to_shares_down(assets, acc.market.total_borrow_assets,
                                     acc.market.total_borrow_shares)
                 ELSE shares)

(* Faulty variant of repay: gated by the pause flags like supply.          *)
repay_gated(w, t, m, on_behalf_of, assets, shares) ==
    IF w.protocol.paused THEN Fail("protocol_paused") ELSE
    IF w.markets[m].paused THEN Fail("market_paused") ELSE
    IF ~(assets > 0 \/ shares > 0) THEN Fail("zero_amount") ELSE
    IF assets > 0 /\ shares > 0 THEN Fail("invalid_input") ELSE
    repay_accrued(w, m, on_behalf_of, assets, shares, accrue(w.markets[m], t))

repay(w, t, m, on_behalf_of, assets, shares) ==
    IF ~(assets > 0 \/ shares > 0) THEN Fail("zero_amount") ELSE
    IF assets > 0 /\ shares > 0 THEN Fail("invalid_input") ELSE
    repay_accrued(w, m, on_behalf_of, assets, shares, accrue(w.markets[m], t))

-----------------------------------------------------------------------------
(* instructions/liquidate.rs *)

(* Faulty variant of liquidate_commit: the seized collateral is taken off   *)
(* the position but stays in the vault.                                    *)
liquidate_commit_collateral_kept(w, m, borrower, market, position, repay_amount, collateral_amount) ==
    IF AnyErr(<<repay_amount, collateral_amount>>)
    THEN Fail(ErrName(FirstErr(<<repay_amount, collateral_amount>>))) ELSE
    Ok(TransferIn(
         SetPosition(SetMarket(w, m, market), <<m, borrower>>, position),
         m, "loan", repay_amount))

liquidate_commit(w, m, borrower, market, position, repay_amount, collateral_amount) ==
    IF AnyErr(<<repay_amount, collateral_amount>>)
    THEN Fail(ErrName(FirstErr(<<repay_amount, collateral_amount>>))) ELSE
    IF ~CanTransferOut(w, m, "collateral", collateral_amount)
    THEN Fail("insufficient_funds") ELSE
    Ok(TransferOut(
         TransferIn(
           SetPosition(SetMarket(w, m, market), <<m, borrower>>, position),
           m, "loan", repay_amount),
         m, "collateral", collateral_amount))

(* Faulty variant of liquidate_bad_debt: the borrow shares written off stay *)
(* on the position.                                                        *)
liquidate_bad_debt_kept(w, m, borrower, position, c, actual_seized_assets, seized_collateral, soc) ==
    IF soc.err # "ok" THEN Fail(soc.err) ELSE
    liquidate_commit(w, m, borrower, soc.market,
                     [position EXCEPT !.collateral = c],
                     safe_u128_to_u64(actual_seized_assets),
                     safe_u128_to_u64(seized_collateral))

liquidate_bad_debt(w, m, borrower, position, c, actual_seized_assets, seized_collateral, soc) ==
    IF soc.err # "ok" THEN Fail(soc.err) ELSE
    liquidate_commit(w, m, borrower, soc.market,
                     [position EXCEPT !.borrow_shares = 0, !.collateral = c],
                     safe_u128_to_u64(actual_seized_assets),
                     safe_u128_to_u64(seized_collateral))

liquidate_effects(w, m, borrower, market, position, actual_seized_assets, seized_collateral, bs, c, tbs, tba) ==
    IF AnyErr(<<bs, c, tbs, tba>>) THEN Fail(ErrName(FirstErr(<<bs, c, tbs, tba>>))) ELSE
    IF c = 0 /\ bs > 0
    THEN liquidate_bad_debt(w, m, borrower, position, c, actual_seized_assets,
                            seized_collateral,
                            socialize_bad_debt([market EXCEPT !.total_borrow_shares = tbs,
                                                              !.total_borrow_assets = tba],
                                               bs))
    ELSE liquidate_commit(w, m, borrower,
                          [market EXCEPT !.total_borrow_shares = tbs,
                                         !.total_borrow_assets = tba],
                          [position EXCEPT !.borrow_shares = bs, !.collateral = c],
                          safe_u128_to_u64(actual_seized_assets),
                          safe_u128_to_u64(seized_collateral))

liquidate_amounts(w, m, borrower, market, position, seized_collateral, repaid_shares, actual_seized_assets) ==
    IF IsErr(actual_seized_assets) THEN Fail(ErrName(actual_seized_assets)) ELSE
    liquidate_effects(w, m, borrower, market, position, actual_seized_assets,
                      seized_collateral,
                      checked_sub(position.borrow_shares, repaid_shares),
                      checked_sub(position.collateral, seized_collateral),
                      checked_sub(market.total_borrow_shares, repaid_shares),
                      checked_sub(market.total_borrow_assets, actual_seized_assets))

liquidate_seized(w, m, borrower, market, position, seized_collateral, repaid_shares) ==
    IF AnyErr(<<seized_collateral, repaid_shares>>)
    THEN Fail(ErrName(FirstErr(<<seized_collateral, repaid_shares>>))) ELSE
    liquidate_amounts(w, m, borrower, market, position,
                      min(seized_collateral, position.collateral),
                      min(repaid_shares, position.borrow_shares),
                      to_assets_up(min(repaid_shares, position.borrow_shares),
                                   market.total_borrow_assets,
                                   market.total_borrow_shares))

(* Faulty variant of liquidate_health: the position is liquidated whether  *)
(* or not it is liquidatable.                                              *)
liquidate_health_skipped(w, m, borrower, seized_assets, market, position, oracle_price, liq) ==
    liquidate_seized(w, m, borrower, market, position,
                     calculate_seized_collateral(seized_assets, oracle_price,
                                                 calculate_lif(market.lltv)),
                     to_shares_down(seized_assets, market.total_borrow_assets,
                                    market.total_borrow_shares))

liquidate_health(w, m, borrower, seized_assets, market, position, oracle_price, liq) ==
    IF liq.err # "ok" THEN Fail(liq.err) ELSE
    IF ~liq.v THEN Fail("position_healthy") ELSE
    liquidate_seized(w, m, borrower, market, position,
                     calculate_seized_collateral(seized_assets, oracle_price,
                                                 calculate_lif(market.lltv)),
                     to_shares_down(seized_assets, market.total_borrow_assets,
                                    market.total_borrow_shares))

liquidate_price(w, m, borrower, seized_assets, market, position, oracle_price) ==
    IF oracle_price.err # "ok" THEN Fail(oracle_price.err) ELSE
    liquidate_health(w, m, borrower, seized_assets, market, position, oracle_price.v,
                     is_liquidatable(position.collateral, position.borrow_shares,
                                     market.total_borrow_assets,
                                     market.total_borrow_shares,
                                     oracle_price.v, market.lltv))

liquidate_accrued(w, p, m, borrower, seized_assets, acc) ==
    IF acc.err # "ok" THEN Fail(acc.err) ELSE
    liquidate_price(w, m, borrower, seized_assets, acc.market,
                    w.positions[<<m, borrower>>], get_oracle_price_validated(p))

liquidate(w, t, p, m, borrower, seized_assets) ==
    IF ~(seized_assets > 0) THEN Fail("zero_amount") ELSE
    liquidate_accrued(w, p, m, borrower, seized_assets, accrue(w.markets[m], t))

-----------------------------------------------------------------------------
(* instructions/flash_loan.rs *)

flash_loan_start_send(w, m, market, amount_u64) ==
    IF IsErr(amount_u64) THEN Fail(ErrName(amount_u64)) ELSE
    IF ~CanTransferOut(w, m, "loan", amount_u64) THEN Fail("insufficient_funds") ELSE
    Ok(TransferOut(SetMarket(w, m, [market EXCEPT !.flash_loan_lock = 1]),
                   m, "loan", amount_u64))

flash_loan_start(w, m, amount) ==
    IF w.protocol.paused THEN Fail("protocol_paused") ELSE
    IF w.markets[m].paused THEN Fail("market_paused") ELSE
    IF ~(amount > 0) THEN Fail("zero_amount") ELSE
    IF ~(amount <= available_liquidity(w.markets[m]))
    THEN Fail("insufficient_liquidity") ELSE
    IF is_flash_loan_active(w.markets[m]) THEN Fail("flash_loan_in_progress") ELSE
    flash_loan_start_send(w, m, w.markets[m], safe_u128_to_u64(amount))

(* Faulty variant of flash_loan_end_unlock: the fee is collected but not    *)
(* added to total_supply_assets.                                           *)
flash_loan_end_unlock_fee_dropped(w, m, market, repayment_u64, tsa) ==
    IF AnyErr(<<repayment_u64, tsa>>)
    THEN Fail(ErrName(FirstErr(<<repayment_u64, tsa>>))) ELSE
    Ok(SetMarket(TransferIn(w, m, "loan", repayment_u64), m,
                 [market EXCEPT !.flash_loan_lock = 0]))

flash_loan_end_unlock(w, m, market, repayment_u64, tsa) ==
    IF AnyErr(<<repayment_u64, tsa>>)
    THEN Fail(ErrName(FirstErr(<<repayment_u64, tsa>>))) ELSE
    Ok(SetMarket(TransferIn(w, m, "loan", repayment_u64), m,
                 [market EXCEPT !.total_supply_assets = tsa,
                                !.flash_loan_lock = 0]))

flash_loan_end_repayment(w, m, market, fee, required_repayment) ==
    IF IsErr(required_repayment) THEN Fail(ErrName(required_repayment)) ELSE
    flash_loan_end_unlock(w, m, market, safe_u128_to_u64(required_repayment),
                          checked_add(market.total_supply_assets, fee))

flash_loan_end_fee(w, m, market, borrowed_amount, fee) ==
    IF IsErr(fee) THEN Fail(ErrName(fee)) ELSE
    flash_loan_end_repayment(w, m, market, fee, checked_add(borrowed_amount, fee))

flash_loan_end(w, m, borrowed_amount) ==
    IF ~is_flash_loan_active(w.markets[m]) THEN Fail("flash_loan_callback_failed") ELSE
    flash_loan_end_fee(w, m, w.markets[m], borrowed_amount,
                       mul_div_up(borrowed_amount, FLASH_LOAN_FEE_BPS, BPS))

(* The single-instruction form: the vault is read, the amount is sent out, *)
(* the vault is reloaded and compared.  Nothing runs between the transfer  *)
(* and the reload, so the reloaded balance is vault_before - amount.       *)
flash_loan_verify(sent, m, market, fee, required, tsa) ==
    IF IsErr(required) THEN Fail(ErrName(required)) ELSE
    IF ~(sent.vaults[m]["loan"] >= required) THEN Fail("flash_loan_not_repaid") ELSE
    IF IsErr(tsa) THEN Fail(ErrName(tsa)) ELSE
    Ok(SetMarket(sent, m, [market EXCEPT !.total_supply_assets = tsa]))

flash_loan_send(w, m, market, fee, vault_before, amount_u64) ==
    IF AnyErr(<<fee, amount_u64>>) THEN Fail(ErrName(FirstErr(<<fee, amount_u64>>))) ELSE
    IF ~CanTransferOut(w, m, "loan", amount_u64) THEN Fail("insufficient_funds") ELSE
    flash_loan_verify(TransferOut(w, m, "loan", amount_u64), m, market, fee,
                      checked_add(vault_before, fee),
                      checked_add(market.total_supply_assets, fee))

flash_loan(w, m, amount) ==
    IF w.protocol.paused THEN Fail("protocol_paused") ELSE
    IF w.markets[m].paused THEN Fail("market_paused") ELSE
    IF ~(amount > 0) THEN Fail("zero_amount") ELSE
    IF ~(amount <= available_liquidity(w.markets[m]))
    THEN Fail("insufficient_liquidity") ELSE
    flash_loan_send(w, m, w.markets[m],
                    mul_div_up(amount, FLASH_LOAN_FEE_BPS, BPS),
                    w.vaults[m]["loan"], safe_u128_to_u64(amount))

-----------------------------------------------------------------------------
(* instructions/utils.rs *)

accrue_interest_ix_store(w, m, acc) ==
    IF acc.err # "ok" THEN Fail(acc.err) ELSE Ok(SetMarket(w, m, acc.market))

accrue_interest_ix(w, t, m) == accrue_interest_ix_store(w, m, accrue(w.markets[m], t))

NewAuthorization ==
    [authorizer |-> DefaultPubkey, authorized |-> DefaultPubkey,
     is_authorized |-> FALSE, is_revoked |-> FALSE, expires_at |-> 0]

(* init_if_needed: the account at the address derived from the pair is     *)
(* created zeroed when it does not exist                                   *)
(* Faulty variant of set_authorization_on: a revoked record is rewritten.  *)
set_authorization_unchecked(w, k, auth, is_authorized, expires_at) ==
    Ok([w EXCEPT !.auths =
          (k :> [auth EXCEPT !.authorizer = k[1],
                             !.authorized = k[2],
                             !.is_authorized = is_authorized,
                             !.expires_at = expires_at]) @@ w.auths])

set_authorization_on(w, k, auth, is_authorized, expires_at) ==
    IF auth.is_revoked THEN Fail("authorization_revoked") ELSE
    Ok([w EXCEPT !.auths =
          (k :> [auth EXCEPT !.authorizer = k[1],
                             !.authorized = k[2],
                             !.is_authorized = is_authorized,
                             !.expires_at = expires_at]) @@ w.auths])

set_authorization(w, authorizer, authorized, is_authorized, expires_at) ==
    set_authorization_on(w, <<authorizer, authorized>>,
                         IF <<authorizer, authorized>> \in DOMAIN w.auths
                         THEN w.auths[<<authorizer, authorized>>]
                         ELSE NewAuthorization,
                         is_authorized, expires_at)

revoke(auth) == [auth EXCEPT !.is_authorized = FALSE, !.is_revoked = TRUE]

revoke_authorization(w, authorizer, k) ==
    IF w.auths[k].authorizer # authorizer THEN Fail("unauthorized") ELSE
    Ok([w EXCEPT !.auths[k] = revoke(w.auths[k])])

(* Faulty variant of claim_fees_credit: the claimed shares stay pending. *)
claim_fees_credit_pending_kept(w, m, k, pending, ss) ==
    IF IsErr(ss) THEN Fail(ErrName(ss)) ELSE
    Ok(SetMarket(SetPosition(w, k, [w.positions[k] EXCEPT !.supply_shares = ss]),
                 m, w.markets[m]))

claim_fees_credit(w, m, k, pending, ss) ==
    IF IsErr(ss) THEN Fail(ErrName(ss)) ELSE
    Ok(SetMarket(SetPosition(w, k, [w.positions[k] EXCEPT !.supply_shares = ss]),
                 m, [w.markets[m] EXCEPT !.pending_fee_shares = 0]))

claim_fees(w, m) ==
    IF w.markets[m].pending_fee_shares = 0 THEN Ok(w) ELSE
    claim_fees_credit(w, m, <<m, w.protocol.fee_recipient>>,
                      w.markets[m].pending_fee_shares,
                      checked_add(w.positions[<<m, w.protocol.fee_recipient>>].supply_shares,
                                  w.markets[m].pending_fee_shares))

-----------------------------------------------------------------------------
(* instructions/admin.rs, state/protocol.rs *)

is_lltv_enabled(state, lltv) ==
    \E i \in 1..Len(state.enabled_lltvs) : state.enabled_lltvs[i] = lltv

is_irm_enabled(state, irm) ==
    \E i \in 1..Len(state.enabled_irms) : state.enabled_irms[i] = irm

(* Faulty variant of add_lltv: the capacity of the array is not checked.    *)
add_lltv_unbounded(state, lltv) ==
    IF is_lltv_enabled(state, lltv) THEN [err |-> "already_enabled"] ELSE
    [err |-> "ok",
     state |-> [state EXCEPT !.enabled_lltvs = Append(state.enabled_lltvs, lltv)]]

add_lltv(state, lltv) ==
    IF ~(Len(state.enabled_lltvs) < MAX_LLTVS) THEN [err |-> "max_lltvs_reached"] ELSE
    IF is_lltv_enabled(state, lltv) THEN [err |-> "already_enabled"] ELSE
    [err |-> "ok",
     state |-> [state EXCEPT !.enabled_lltvs = Append(state.enabled_lltvs, lltv)]]

add_irm(state, irm) ==
    IF ~(Len(state.enabled_irms) < MAX_IRMS) THEN [err |-> "max_irms_reached"] ELSE
    IF is_irm_enabled(state, irm) THEN [err |-> "already_enabled"] ELSE
    [err |-> "ok",
     state |-> [state EXCEPT !.enabled_irms = Append(state.enabled_irms, irm)]]

initialize(owner, fee_recipient) ==
    [owner |-> owner, pending_owner |-> DefaultPubkey, fee_recipient |-> fee_recipient,
     paused |-> FALSE, enabled_lltvs |-> <<>>, enabled_irms |-> <<>>, market_count |-> 0]

set_protocol_paused(w, caller, paused) ==
    IF w.protocol.owner # caller THEN Fail("unauthorized") ELSE
    Ok([w EXCEPT !.protocol.paused = paused])

set_market_paused(w, caller, m, paused) ==
    IF w.protocol.owner # caller THEN Fail("unauthorized") ELSE
    Ok([w EXCEPT !.markets[m].paused = paused])

enable_lltv(w, caller, lltv) ==
    IF w.protocol.owner # caller THEN Fail("unauthorized") ELSE
    IF ~(lltv > 0 /\ lltv <= BPS) THEN Fail("invalid_lltv") ELSE
    LET r == add_lltv(w.protocol, lltv) IN
    IF r.err # "ok" THEN Fail(r.err) ELSE Ok([w EXCEPT !.protocol = r.state])

enable_irm(w, caller, irm) ==
    IF w.protocol.owner # caller THEN Fail("unauthorized") ELSE
    LET r == add_irm(w.protocol, irm) IN
    IF r.err # "ok" THEN Fail(r.err) ELSE Ok([w EXCEPT !.protocol = r.state])

(* Faulty variant of set_fee: any fee is stored.                            *)
set_fee_uncapped(w, caller, m, fee) ==
    IF w.protocol.owner # caller THEN Fail("unauthorized") ELSE
    Ok([w EXCEPT !.markets[m].fee = fee])

(* Faulty variant of set_fee: the caller is not compared with the owner.   *)
set_fee_unchecked(w, caller, m, fee) ==
    IF ~(fee <= MAX_FEE) THEN Fail("fee_too_high") ELSE
    Ok([w EXCEPT !.markets[m].fee = fee])

set_fee(w, caller, m, fee) ==
    IF w.protocol.owner # caller THEN Fail("unauthorized") ELSE
    IF ~(fee <= MAX_FEE) THEN Fail("fee_too_high") ELSE
    Ok([w EXCEPT !.markets[m].fee = fee])

transfer_ownership_immediate(w, caller, new_owner) ==
    IF w.protocol.owner # caller THEN Fail("unauthorized") ELSE
    Ok([w EXCEPT !.protocol.owner = new_owner])

transfer_ownership(w, caller, new_owner) ==
    IF w.protocol.owner # caller THEN Fail("unauthorized") ELSE
    Ok([w EXCEPT !.protocol.pending_owner = new_owner])

accept_ownership(w, caller) ==
    IF w.protocol.pending_owner # caller THEN Fail("unauthorized") ELSE
    Ok([w EXCEPT !.protocol.owner = w.protocol.pending_owner,
                 !.protocol.pending_owner = DefaultPubkey])

set_fee_recipient(w, caller, new_recipient) ==
    IF w.protocol.owner # caller THEN Fail("unauthorized") ELSE
    Ok([w EXCEPT !.protocol.fee_recipient = new_recipient])

-----------------------------------------------------------------------------
(* instructions/market.rs, instructions/position.rs *)

(* Faulty variant of create_market: the market account is initialised     *)
(* again when it already exists.                                           *)
create_market_if_needed(w, t, collateral_mint, loan_mint, oracle, irm, lltv) ==
    LET m == calculate_market_id(collateral_mint, loan_mint, oracle, irm, lltv) IN
    IF ~is_lltv_enabled(w.protocol, lltv) THEN Fail("lltv_not_enabled") ELSE
    IF ~is_irm_enabled(w.protocol, irm) THEN Fail("irm_not_enabled") ELSE
    LET market == [market_id |-> m, collateral_mint |-> collateral_mint,
                   loan_mint |-> loan_mint, oracle |-> oracle, irm |-> irm,
                   lltv |-> lltv, paused |-> FALSE, fee |-> 0,
                   total_supply_assets |-> 0, total_supply_shares |-> 0,
                   total_borrow_assets |-> 0, total_borrow_shares |-> 0,
                   last_update |-> t, pending_fee_shares |-> 0,
                   flash_loan_lock |-> 0]
    IN
    Ok([w EXCEPT !.markets = (m :> market) @@ w.markets,
                 !.vaults = (m :> [loan |-> 0, collateral |-> 0]) @@ w.vaults,
                 !.protocol.market_count = @ + 1])

create_market(w, t, collateral_mint, loan_mint, oracle, irm, lltv) ==
    LET m == calculate_market_id(collateral_mint, loan_mint, oracle, irm, lltv) IN
    IF m \in DOMAIN w.markets THEN Fail("account_in_use") ELSE
    IF ~is_lltv_enabled(w.protocol, lltv) THEN Fail("lltv_not_enabled") ELSE
    IF ~is_irm_enabled(w.protocol, irm) THEN Fail("irm_not_enabled") ELSE
    LET market == [market_id |-> m, collateral_mint |-> collateral_mint,
                   loan_mint |-> loan_mint, oracle |-> oracle, irm |-> irm,
                   lltv |-> lltv, paused |-> FALSE, fee |-> 0,
                   total_supply_assets |-> 0, total_supply_shares |-> 0,
                   total_borrow_assets |-> 0, total_borrow_shares |-> 0,
                   last_update |-> t, pending_fee_shares |-> 0,
                   flash_loan_lock |-> 0]
    IN
    Ok([w EXCEPT !.markets = (m :> market) @@ w.markets,
                 !.vaults = (m :> [loan |-> 0, collateral |-> 0]) @@ w.vaults,
                 !.protocol.market_count = @ + 1])

create_position(w, m, owner) ==
    IF <<m, owner>> \in DOMAIN w.positions THEN Fail("account_in_use") ELSE
    Ok([w EXCEPT !.positions =
          (<<m, owner>> :> [market_id |-> m, owner |-> owner, supply_shares |-> 0,
                            borrow_shares |-> 0, collateral |-> 0]) @@ w.positions])

can_close(position) ==
    /\ position.supply_shares = 0 /\ position.borrow_shares = 0 /\ position.collateral = 0
    /\ position.owner # DefaultPubkey

(* Faulty variant: the account is closed whatever it still holds. *)
close_position_ignoring_balances(w, m, owner, position) ==
    IF position # <<m, owner>> THEN Fail("constraint_seeds") ELSE
    IF w.positions[position].owner # owner THEN Fail("unauthorized") ELSE
    Ok([w EXCEPT !.positions =
          [k \in DOMAIN w.positions \ {position} |-> w.positions[k]]])

(* close_position: the signer is `owner`, `position` is the key of the      *)
(* position account that the instruction is handed.  The account must sit  *)
(* at the address derived from the market and the signer; its two          *)
(* constraints follow.  The handler itself only emits an event, and the    *)
(* account is closed on exit.                                              *)
close_position(w, m, owner, position) ==
    IF position # <<m, owner>> THEN Fail("constraint_seeds") ELSE
    IF w.positions[position].owner # owner THEN Fail("unauthorized") ELSE
    IF ~can_close(w.positions[position]) THEN Fail("position_not_empty") ELSE
    Ok([w EXCEPT !.positions =
          [k \in DOMAIN w.positions \ {position} |-> w.positions[k]]])

-----------------------------------------------------------------------------
(* The runtime.  An instruction that returns Ok commits its account        *)
(* writes; one that returns Err aborts the enclosing transaction, whose    *)
(* writes are all discarded.  tx_base holds the accounts as they were when *)
(* the open multi-instruction transaction began (Solana transactions are   *)
(* atomic lists of instructions); with no transaction open an instruction  *)
(* is a transaction of its own.  last records the instruction just         *)
(* attempted and its result.  flash is a history variable: the loan-vault  *)
(* balance and the amount at the flash_loan_start whose lock is still set. *)

MaxOps == 11

NoTx == [open |-> FALSE]

(* The scratch record of a computation that touches no account: what it is *)
(* (kind), its arguments (x, y, z) and its results (out, empty before).    *)
NoCalc == [kind |-> "none", x |-> 0, y |-> 0, z |-> 0, out |-> <<>>]

NoMarket == <<>>

Install(w) ==
    /\ protocol' = w.protocol
    /\ markets' = w.markets
    /\ positions' = w.positions
    /\ auths' = w.auths
    /\ vaults' = w.vaults

(* Faulty variant of Exec: the interest accrual a failing instruction wrote  *)
(* to its market account stays written.                                    *)
Exec_accrual_kept(info, r, fl) ==
    /\ steps < MaxOps
    /\ steps' = IF r.err = "ok" THEN steps + 1 ELSE steps
    /\ last' = [op |-> info.op, caller |-> info.caller, m |-> info.m,
                owner |-> info.owner, err |-> r.err]
    /\ IF r.err = "ok"
       THEN Install(r.w) /\ flash' = fl /\ UNCHANGED tx_base
       ELSE IF tx_base.open
            THEN Install(tx_base.w) /\ flash' = tx_base.flash /\ tx_base' = NoTx
            ELSE /\ Install(IF info.m \in DOMAIN markets
                               /\ accrue(markets[info.m], now).err = "ok"
                            THEN SetMarket(World, info.m, accrue(markets[info.m], now).market)
                            ELSE World)
                 /\ UNCHANGED <<flash, tx_base>>
    /\ UNCHANGED <<now, price, calc>>

Exec(info, r, fl) ==
    /\ steps < MaxOps
    /\ steps' = IF r.err = "ok" THEN steps + 1 ELSE steps
    /\ last' = [op |-> info.op, caller |-> info.caller, m |-> info.m,
                owner |-> info.owner, err |-> r.err]
    /\ IF r.err = "ok"
       THEN Install(r.w) /\ flash' = fl /\ UNCHANGED tx_base
       ELSE IF tx_base.open
            THEN Install(tx_base.w) /\ flash' = tx_base.flash /\ tx_base' = NoTx
            ELSE UNCHANGED <<protocol, markets, positions, auths, vaults, flash, tx_base>>
    /\ UNCHANGED <<now, price, calc>>

Info(op, caller, m, owner) == [op |-> op, caller |-> caller, m |-> m, owner |-> owner]

-----------------------------------------------------------------------------
(* Bounds of the model *)

MaxTime == 21
TickSeconds == 20
MaxSupply == 3
MaxCollateral == 3
MaxAmount == 2

Amounts == 1..MaxAmount

ShareCap == MaxSupply * VIRTUAL_SHARES

Admin == "admin"
Users == {"alice", "bob"}
Lltv1 == 8000
Market1 == calculate_market_id("COLL", "LOAN", "oracle", "irm", Lltv1)
Prices == {ORACLE_SCALE, ORACLE_SCALE \div 2}

-----------------------------------------------------------------------------
(* Actions: one per instruction.  The guards are the account constraints   *)
(* Anchor checks before the handler runs (the accounts named must exist)   *)
(* and the bounds of the model.                                            *)

HasMarket(m) == m \in DOMAIN markets

HasPosition(m, owner) == <<m, owner>> \in DOMAIN positions

EnableLltv(caller, lltv) ==
    Exec(Info("enable_lltv", caller, NoMarket, DefaultPubkey),
         enable_lltv(World, caller, lltv), flash)

EnableIrm(caller, irm) ==
    Exec(Info("enable_irm", caller, NoMarket, DefaultPubkey),
         enable_irm(World, caller, irm), flash)

CreateMarket(caller, collateral_mint, loan_mint, oracle, irm, lltv) ==
    Exec(Info("create_market", caller,
              calculate_market_id(collateral_mint, loan_mint, oracle, irm, lltv),
              DefaultPubkey),
         create_market(World, now, collateral_mint, loan_mint, oracle, irm, lltv), flash)

CreatePosition(caller, m, owner) ==
    /\ HasMarket(m)
    /\ Exec(Info("create_position", caller, m, owner), create_position(World, m, owner),
            flash)

Supply(caller, m, on_behalf_of, assets, min_shares) ==
    /\ HasMarket(m) /\ HasPosition(m, on_behalf_of)
    /\ markets[m].total_supply_assets + assets <= MaxSupply
    /\ markets[m].total_supply_shares <= ShareCap
    /\ Exec(Info("supply", caller, m, on_behalf_of),
            supply(World, now, m, on_behalf_of, assets, min_shares), flash)

Withdraw(caller, m, owner, authorization, assets, shares) ==
    /\ HasMarket(m) /\ HasPosition(m, owner)
    /\ authorization = NoAuthorization \/ authorization \in DOMAIN auths
    /\ Exec(Info("withdraw", caller, m, owner),
            withdraw(World, now, caller, m, owner, authorization, assets, shares), flash)

SupplyCollateral(caller, m, on_behalf_of, amount) ==
    /\ HasMarket(m) /\ HasPosition(m, on_behalf_of)
    /\ positions[<<m, on_behalf_of>>].collateral + amount <= MaxCollateral
    /\ Exec(Info("supply_collateral", caller, m, on_behalf_of),
            supply_collateral(World, m, on_behalf_of, amount), flash)

WithdrawCollateral(caller, m, owner, authorization, amount) ==
    /\ HasMarket(m) /\ HasPosition(m, owner)
    /\ authorization = NoAuthorization \/ authorization \in DOMAIN auths
    /\ Exec(Info("withdraw_collateral", caller, m, owner),
            withdraw_collateral(World, now, price, caller, m, owner, authorization, amount),
            flash)

Borrow(caller, m, owner, authorization, assets, max_shares) ==
    /\ HasMarket(m) /\ HasPosition(m, owner)
    /\ authorization = NoAuthorization \/ authorization \in DOMAIN auths
    /\ markets[m].total_borrow_shares <= ShareCap
    /\ Exec(Info("borrow", caller, m, owner),
            borrow(World, now, price, caller, m, owner, authorization, assets, max_shares),
            flash)

Repay(caller, m, on_behalf_of, assets, shares) ==
    /\ HasMarket(m) /\ HasPosition(m, on_behalf_of)
    /\ Exec(Info("repay", caller, m, on_behalf_of),
            repay(World, now, m, on_behalf_of, assets, shares), flash)

Liquidate(caller, m, borrower, seized_assets) ==
    /\ HasMarket(m) /\ HasPosition(m, borrower)
    /\ Exec(Info("liquidate", caller, m, borrower),
            liquidate(World, now, price, m, borrower, seized_assets), flash)

AccrueInterest(caller, m) ==
    /\ HasMarket(m)
    /\ Exec(Info("accrue_interest", caller, m, DefaultPubkey),
            accrue_interest_ix(World, now, m), flash)

FlashLoanStart(caller, m, amount) ==
    /\ HasMarket(m)
    /\ markets[m].total_supply_assets <= MaxSupply
    /\ Exec(Info("flash_loan_start", caller, m, DefaultPubkey),
            flash_loan_start(World, m, amount),
            (m :> [vault_before |-> vaults[m]["loan"], amount |-> amount]) @@ flash)

FlashLoanEnd(caller, m, borrowed_amount) ==
    /\ HasMarket(m)
    /\ Exec(Info("flash_loan_end", caller, m, DefaultPubkey),
            flash_loan_end(World, m, borrowed_amount),
            [x \in DOMAIN flash \ {m} |-> flash[x]])

FlashLoan(caller, m, amount) ==
    /\ HasMarket(m)
    /\ Exec(Info("flash_loan", caller, m, DefaultPubkey),
            flash_loan(World, m, amount), flash)

ClaimFees(caller, m) ==
    /\ HasMarket(m) /\ HasPosition(m, protocol.fee_recipient)
    /\ Exec(Info("claim_fees", caller, m, protocol.fee_recipient),
            claim_fees(World, m), flash)

SetFee(caller, m, fee) ==
    /\ HasMarket(m)
    /\ Exec(Info("set_fee", caller, m, DefaultPubkey), set_fee(World, caller, m, fee), flash)

SetProtocolPaused(caller, paused) ==
    Exec(Info("set_protocol_paused", caller, NoMarket, DefaultPubkey),
         set_protocol_paused(World, caller, paused), flash)

SetMarketPaused(caller, m, paused) ==
    /\ HasMarket(m)
    /\ Exec(Info("set_market_paused", caller, m, DefaultPubkey),
            set_market_paused(World, caller, m, paused), flash)

SetAuthorization(authorizer, authorized, is_authorized, expires_at) ==
    Exec(Info("set_authorization", authorizer, NoMarket, authorized),
         set_authorization(World, authorizer, authorized, is_authorized, expires_at), flash)

RevokeAuthorization(authorizer, k) ==
    /\ k \in DOMAIN auths
    /\ Exec(Info("revoke_authorization", authorizer, NoMarket, k[2]),
            revoke_authorization(World, authorizer, k), flash)

(* The host: the clock advances, the oracle account is updated. *)
Tick ==
    /\ now + TickSeconds <= MaxTime
    /\ now' = now + TickSeconds
    /\ UNCHANGED <<protocol, markets, positions, auths, vaults, price, last, tx_base, flash,
                   steps, calc>>

OracleUpdate(p) ==
    /\ p # price
    /\ price' = p
    /\ UNCHANGED <<protocol, markets, positions, auths, vaults, now, last, tx_base, flash,
                   steps, calc>>

-----------------------------------------------------------------------------
(* The state after initialize(owner = admin, fee_recipient = alice).       *)

Init ==
    /\ protocol = initialize(Admin, "alice")
    /\ markets = <<>>
    /\ positions = <<>>
    /\ auths = <<>>
    /\ vaults = <<>>
    /\ now = 1
    /\ price = ORACLE_SCALE
    /\ last = [op |-> "initialize", caller |-> Admin, m |-> NoMarket,
               owner |-> DefaultPubkey, err |-> "ok"]
    /\ tx_base = NoTx
    /\ flash = <<>>
    /\ steps = 0
    /\ calc = NoCalc

(* Share inputs: a whole position, or one asset's worth at the initial rate *)
SupplyShareInputs(m, owner) ==
    IF HasPosition(m, owner) THEN {positions[<<m, owner>>].supply_shares} ELSE {}

BorrowShareInputs(m, owner) ==
    IF HasPosition(m, owner) THEN {positions[<<m, owner>>].borrow_shares} ELSE {}

Setup ==
    \/ ~is_lltv_enabled(protocol, Lltv1) /\ EnableLltv(Admin, Lltv1)
    \/ ~is_irm_enabled(protocol, "irm") /\ EnableIrm(Admin, "irm")
    \/ ~HasMarket(Market1) /\ CreateMarket(Admin, "COLL", "LOAN", "oracle", "irm", Lltv1)
    \/ \E u \in Users : ~HasPosition(Market1, u) /\ CreatePosition(u, Market1, u)

Lend ==
    \/ \E a \in Amounts : Supply("alice", Market1, "alice", a, 0)
    \/ \E a \in Amounts : Withdraw("alice", Market1, "alice", NoAuthorization, a, 0)
    \/ \E s \in SupplyShareInputs(Market1, "alice") :
           Withdraw("alice", Market1, "alice", NoAuthorization, 0, s)

Debt ==
    \/ \E a \in Amounts : SupplyCollateral("bob", Market1, "bob", a)
    \/ \E a \in Amounts : WithdrawCollateral("bob", Market1, "bob", NoAuthorization, a)
    \/ \E a \in Amounts : Borrow("bob", Market1, "bob", NoAuthorization, a, 0)
    \/ \E a \in Amounts : Repay("bob", Market1, "bob", a, 0)
    \/ \E s \in BorrowShareInputs(Market1, "bob") : Repay("alice", Market1, "bob", 0, s)
    \/ \E a \in Amounts : Liquidate("alice", Market1, "bob", a)

Flash ==
    \/ FlashLoanStart("bob", Market1, 1)
    \/ \E a \in {0, 1} : FlashLoanEnd("bob", Market1, a)
    \/ FlashLoan("bob", Market1, 1)

Fees ==
    \/ AccrueInterest("alice", Market1)
    \/ ClaimFees("alice", Market1)
    \/ \E f \in {0, MAX_FEE} : SetFee(Admin, Market1, f)

Host ==
    \/ Tick
    \/ \E p \in Prices : OracleUpdate(p)

Next == Setup \/ Lend \/ Debt \/ Flash \/ Fees \/ Host

Spec == Init /\ [][Next]_vars

-----------------------------------------------------------------------------
(* Transactions.  The runtime runs the instructions of a transaction one   *)
(* after the other on the accounts; when one fails, the accounts go back   *)
(* to what they were when the transaction began (Exec), and when all have  *)
(* succeeded the transaction commits.  An instruction run while no         *)
(* transaction is open is a transaction of its own; in SpecTx a            *)
(* transaction may also be a sequence of instructions between BeginTx and  *)
(* CommitTx.                                                               *)

BeginTx ==
    /\ ~tx_base.open
    /\ steps < MaxOps
    /\ tx_base' = [open |-> TRUE, w |-> World, flash |-> flash]
    /\ UNCHANGED <<protocol, markets, positions, auths, vaults, now, price, last, flash,
                   steps, calc>>

CommitTx ==
    /\ tx_base.open
    /\ tx_base' = NoTx
    /\ UNCHANGED <<protocol, markets, positions, auths, vaults, now, price, last, flash,
                   steps, calc>>

NextTx == BeginTx \/ CommitTx \/ Setup \/ Lend \/ Flash

SpecTx == Init /\ [][NextTx]_vars

-----------------------------------------------------------------------------
(* Pausing: the owner sets and clears the protocol flag and the market     *)
(* flag while the users lend, borrow, repay, liquidate and flash-borrow.   *)

Pause ==
    \/ \E b \in BOOLEAN : SetProtocolPaused(Admin, b)
    \/ \E b \in BOOLEAN : SetMarketPaused(Admin, Market1, b)

NextPause == Setup \/ Lend \/ Debt \/ Flash \/ Pause \/ Host

SpecPause == Init /\ [][NextPause]_vars

-----------------------------------------------------------------------------
(* Delegation: each user grants, rewrites and revokes an authorization for *)
(* the other, while either of them withdraws from alice's position and     *)
(* borrows or withdraws collateral on bob's, passing no authorization      *)
(* account or any one that exists, as the clock passes the expiry.         *)

Expiries == {0, MaxTime}

AuthorizationInputs == {NoAuthorization} \cup DOMAIN auths

Grant ==
    \/ \E u \in Users : \E v \in Users \ {u} : \E b \in BOOLEAN : \E x \in Expiries :
           SetAuthorization(u, v, b, x)
    \/ \E u \in Users : \E k \in DOMAIN auths : RevokeAuthorization(u, k)

Delegated ==
    \/ Supply("alice", Market1, "alice", 1, 0)
    \/ SupplyCollateral("bob", Market1, "bob", MaxCollateral)
    \/ \E c \in Users : \E x \in AuthorizationInputs :
           Withdraw(c, Market1, "alice", x, 1, 0)
    \/ \E c \in Users : \E x \in AuthorizationInputs :
           Borrow(c, Market1, "bob", x, 1, 0)
    \/ \E c \in Users : \E x \in AuthorizationInputs :
           WithdrawCollateral(c, Market1, "bob", x, 1)

NextAuth == Setup \/ Grant \/ Delegated \/ Tick

SpecAuth == Init /\ [][NextAuth]_vars

-----------------------------------------------------------------------------
(* Governance: the admin operations are invoked by the admin and by either *)
(* user, ownership is offered to a user and accepted, and the market is    *)
(* used meanwhile.                                                         *)

TransferOwnership(caller, new_owner) ==
    Exec(Info("transfer_ownership", caller, NoMarket, new_owner),
         transfer_ownership(World, caller, new_owner), flash)

AcceptOwnership(caller) ==
    Exec(Info("accept_ownership", caller, NoMarket, DefaultPubkey),
         accept_ownership(World, caller), flash)

SetFeeRecipient(caller, new_recipient) ==
    Exec(Info("set_fee_recipient", caller, NoMarket, new_recipient),
         set_fee_recipient(World, caller, new_recipient), flash)

ClosePosition(caller, m, position) ==
    /\ HasMarket(m) /\ position \in DOMAIN positions
    /\ Exec(Info("close_position", caller, m, position[2]), close_position(World, m, caller, position), flash)

Callers == {Admin, "alice"}

Governance ==
    \/ \E c \in Callers : EnableLltv(c, Lltv1)
    \/ \E c \in Callers : EnableIrm(c, "irm")
    \/ \E c \in Callers : TransferOwnership(c, "alice")
    \/ \E c \in Callers : AcceptOwnership(c)
    \/ \E c \in Callers : SetFeeRecipient(c, "bob")
    \/ \E c \in Callers : \E b \in BOOLEAN : SetProtocolPaused(c, b)
    \/ \E c \in Callers : \E b \in BOOLEAN : SetMarketPaused(c, Market1, b)
    \/ \E c \in Callers : \E f \in {0, MAX_FEE} : SetFee(c, Market1, f)

Usage ==
    \/ ~HasMarket(Market1) /\ CreateMarket("bob", "COLL", "LOAN", "oracle", "irm", Lltv1)
    \/ \E u \in Users : ~HasPosition(Market1, u) /\ CreatePosition(u, Market1, u)
    \/ \E u \in Users : HasPosition(Market1, u) /\ ClosePosition(u, Market1, <<Market1, u>>)
    \/ Supply("alice", Market1, "alice", MaxAmount, 0)
    \/ Withdraw("alice", Market1, "alice", NoAuthorization, 1, 0)
    \/ SupplyCollateral("bob", Market1, "bob", MaxCollateral)
    \/ WithdrawCollateral("bob", Market1, "bob", NoAuthorization, 1)
    \/ Borrow("bob", Market1, "bob", NoAuthorization, 1, 0)
    \/ Repay("bob", Market1, "bob", 1, 0)
    \/ Liquidate("alice", Market1, "bob", 1)
    \/ FlashLoan("bob", Market1, 1)
    \/ AccrueInterest("alice", Market1)
    \/ ClaimFees("alice", Market1)
    \/ SetAuthorization("alice", "bob", TRUE, 0)
    \/ RevokeAuthorization("alice", <<"alice", "bob">>)

NextAdmin == Governance \/ Usage

SpecAdmin == Init /\ [][NextAdmin]_vars

-----------------------------------------------------------------------------
(* Properties *)

Totals(market) ==
    <<market.total_supply_assets, market.total_supply_shares,
      market.total_borrow_assets, market.total_borrow_shares>>

(* The solvency check of the position <<m, owner>> in the accounts w at    *)
(* price p came out "not liquidatable"                                     *)
NotLiquidatable(w, m, owner, p) ==
    LET liq == is_liquidatable(w.positions[<<m, owner>>].collateral,
                               w.positions[<<m, owner>>].borrow_shares,
                               w.markets[m].total_borrow_assets,
                               w.markets[m].total_borrow_shares,
                               p, w.markets[m].lltv)
    IN  liq.err = "ok" /\ ~liq.v

(* C1: in every reachable state of every market, total_borrow_assets is at *)
(* most total_supply_assets, whatever sequence of supply, withdraw,        *)
(* borrow, repay, liquidate (bad debt included), accrue, claim_fees,       *)
(* set_fee and flash-loan instructions led there.                          *)
C1_BorrowWithinSupply ==
    \A m \in DOMAIN markets :
        markets[m].total_borrow_assets <= markets[m].total_supply_assets

(* Interest has accrued and the market is fully utilised: the bound of C1  *)
(* is met with equality.                                                   *)
C1_Witness ==
    /\ HasMarket(Market1)
    /\ markets[Market1].last_update > 1
    /\ markets[Market1].total_borrow_assets > 1
    /\ markets[Market1].total_borrow_assets = markets[Market1].total_supply_assets

(* The position a borrow of `assets` would leave is liquidatable at the    *)
(* price read, on the totals after accrual and after the borrow.           *)
BorrowLeavesLiquidatable(w, t, p, m, owner, assets) ==
    LET acc == accrue(w.markets[m], t)
        shares == to_shares_up(assets, acc.market.total_borrow_assets,
                               acc.market.total_borrow_shares)
        liq == is_liquidatable(w.positions[<<m, owner>>].collateral,
                               w.positions[<<m, owner>>].borrow_shares + shares,
                               acc.market.total_borrow_assets + assets,
                               acc.market.total_borrow_shares + shares,
                               p, acc.market.lltv)
    IN  /\ acc.err = "ok" /\ ~IsErr(shares)
        /\ assets <= available_liquidity(acc.market)
        /\ liq.err = "ok" /\ liq.v

WithdrawCollateralLeavesLiquidatable(w, t, p, m, owner, amount) ==
    LET acc == accrue(w.markets[m], t)
        liq == is_liquidatable(w.positions[<<m, owner>>].collateral - amount,
                               w.positions[<<m, owner>>].borrow_shares,
                               acc.market.total_borrow_assets,
                               acc.market.total_borrow_shares,
                               p, acc.market.lltv)
    IN  /\ acc.err = "ok"
        /\ w.positions[<<m, owner>>].collateral >= amount
        /\ w.positions[<<m, owner>>].borrow_shares > 0
        /\ liq.err = "ok" /\ liq.v

C2_Borrow(m, owner, assets) ==
    LET r == borrow(World, now, price, owner, m, owner, NoAuthorization, assets, 0) IN
    /\ r.err = "ok" =>
          /\ r.w.positions[<<m, owner>>].borrow_shares > 0
          /\ NotLiquidatable(r.w, m, owner, price)
    /\ (/\ ~protocol.paused /\ ~markets[m].paused /\ oracle_price_valid(price)
        /\ BorrowLeavesLiquidatable(World, now, price, m, owner, assets))
       => r = Fail("position_unhealthy")

C2_WithdrawCollateral(m, owner, amount) ==
    LET r == withdraw_collateral(World, now, price, owner, m, owner, NoAuthorization,
                                 amount)
    IN
    /\ (r.err = "ok" /\ r.w.positions[<<m, owner>>].borrow_shares > 0)
       => NotLiquidatable(r.w, m, owner, price)
    /\ (/\ ~protocol.paused /\ ~markets[m].paused /\ oracle_price_valid(price)
        /\ WithdrawCollateralLeavesLiquidatable(World, now, price, m, owner, amount))
       => r = Fail("position_unhealthy")

(* C2: in every reachable state and for every amount, a borrow or a        *)
(* withdraw_collateral (of a position with borrow_shares > 0) that         *)
(* succeeds leaves the position not liquidatable on the totals after the   *)
(* instruction and at the price it read; when the position it would leave  *)
(* is liquidatable, the instruction fails with position_unhealthy.         *)
C2_HealthyAfterBorrow ==
    \A m \in DOMAIN markets : \A u \in Users :
        HasPosition(m, u) =>
            \A a \in Amounts : C2_Borrow(m, u, a) /\ C2_WithdrawCollateral(m, u, a)

(* bob has just borrowed, and a further borrow of 1 would be refused as    *)
(* unhealthy.                                                              *)
C2_Witness ==
    /\ last.op = "borrow" /\ last.err = "ok"
    /\ positions[<<Market1, "bob">>].borrow_shares > 0
    /\ borrow(World, now, price, "bob", Market1, "bob", NoAuthorization, 1, 0)
         = Fail("position_unhealthy")

C3_Liquidate(m, borrower, seized_assets) ==
    LET acc == accrue(markets[m], now)
        r == liquidate(World, now, price, m, borrower, seized_assets)
    IN
    /\ (/\ acc.err = "ok" /\ oracle_price_valid(price)
        /\ NotLiquidatable(SetMarket(World, m, acc.market), m, borrower, price))
       => r = Fail("position_healthy")
    /\ positions[<<m, borrower>>].borrow_shares = 0 => r.err # "ok"

(* C3: in every reachable state and for every seized_assets > 0, liquidate *)
(* on a position that is not liquidatable (on the accrued totals, at a     *)
(* valid price) fails with position_healthy, and so changes nothing; a     *)
(* position with borrow_shares = 0 is never liquidated.                    *)
C3_HealthyNotLiquidated ==
    \A m \in DOMAIN markets : \A u \in Users :
        HasPosition(m, u) => \A a \in Amounts : C3_Liquidate(m, u, a)

(* A liquidation of an indebted, healthy position has just been refused.   *)
C3_Witness ==
    /\ last.op = "liquidate" /\ last.err = "position_healthy"
    /\ positions[<<last.m, last.owner>>].borrow_shares > 0

(* C4: while a market's flash_loan_lock is 1, no instruction other than    *)
(* flash_loan_end changes its four totals: a step taken from a locked      *)
(* market that changes the totals is a flash_loan_end.                     *)
C4_LockedTotalsFrozen ==
    [][\A m \in DOMAIN markets :
          (markets[m].flash_loan_lock = 1 /\ Totals(markets'[m]) # Totals(markets[m]))
          => last'.op = "flash_loan_end"]_vars

(* C5: a flash loan that succeeds leaves the loan vault with at least the  *)
(* balance it had before the loan plus the fee on the amount lent,         *)
(* amount * 5 / 10000, and the lock cleared, whatever borrowed_amount      *)
(* flash_loan_end is given.  (flash records the balance and the amount at  *)
(* flash_loan_start; the step looked at is a successful flash_loan_end     *)
(* with no other movement of the vault in between.)                        *)
C5_FlashLoanRepaid ==
    [][\A m \in DOMAIN flash :
          (/\ steps' # steps /\ last'.op = "flash_loan_end" /\ last'.m = m
           /\ vaults[m]["loan"] = flash[m].vault_before - flash[m].amount)
          => /\ vaults'[m]["loan"] * BPS
                  >= flash[m].vault_before * BPS + flash[m].amount * FLASH_LOAN_FEE_BPS
             /\ markets'[m].flash_loan_lock = 0]_vars

(* C6: while a market's flash_loan_lock is 1, every flash_loan_start and   *)
(* every single-instruction flash_loan on it fails with                    *)
(* flash_loan_in_progress (and so moves no tokens and leaves the lock set).*)
C6_LockRejectsFlashLoans ==
    \A m \in DOMAIN markets :
        markets[m].flash_loan_lock = 1 =>
            \A a \in Amounts :
                /\ flash_loan_start(World, m, a) = Fail("flash_loan_in_progress")
                /\ flash_loan(World, m, a) = Fail("flash_loan_in_progress")

(* C7: no transaction commits with flash_loan_lock = 1: in the state      *)
(* between two transactions the lock of every market is 0.                 *)
C7_NoCommitWhileLocked ==
    ~tx_base.open => \A m \in DOMAIN markets : markets[m].flash_loan_lock = 0

(* The accounts w with both pause flags cleared *)
Unpaused(w) ==
    [w EXCEPT !.protocol.paused = FALSE,
              !.markets = [m \in DOMAIN w.markets |->
                              [w.markets[m] EXCEPT !.paused = FALSE]]]

(* r, the outcome on the paused accounts w, is the outcome ru on the       *)
(* unpaused accounts: the same error, or the same accounts written with    *)
(* the pause flags left as they were                                       *)
SameOutcome(w, r, ru) ==
    /\ r.err = ru.err
    /\ r.err = "ok" =>
          /\ Unpaused(r.w) = ru.w
          /\ r.w.protocol.paused = w.protocol.paused
          /\ \A m \in DOMAIN w.markets : r.w.markets[m].paused = w.markets[m].paused

(* C8: when the protocol or the market is paused, supply, withdraw,        *)
(* supply_collateral, withdraw_collateral, borrow, flash_loan_start and    *)
(* flash_loan fail, with protocol_paused when the protocol flag is set and *)
(* with market_paused when only the market flag is set, and so change      *)
(* nothing; repay and liquidate have the outcome they have unpaused.       *)
C8_PauseGates ==
    \A m \in DOMAIN markets :
        (protocol.paused \/ markets[m].paused) =>
            \A owner \in Users : HasPosition(m, owner) =>
                \A caller \in Users : \A a \in 0..MaxAmount :
                    LET e == Fail(IF protocol.paused THEN "protocol_paused"
                                                     ELSE "market_paused")
                    IN  /\ supply(World, now, m, owner, a, 0) = e
                        /\ withdraw(World, now, caller, m, owner, NoAuthorization, a, 0) = e
                        /\ withdraw(World, now, caller, m, owner, NoAuthorization, 0, a) = e
                        /\ supply_collateral(World, m, owner, a) = e
                        /\ withdraw_collateral(World, now, price, caller, m, owner,
                                               NoAuthorization, a) = e
                        /\ borrow(World, now, price, caller, m, owner, NoAuthorization,
                                  a, 0) = e
                        /\ flash_loan_start(World, m, a) = e
                        /\ flash_loan(World, m, a) = e
                        /\ SameOutcome(World, repay(World, now, m, owner, a, 0),
                                       repay(Unpaused(World), now, m, owner, a, 0))
                        /\ \A sh \in BorrowShareInputs(m, owner) :
                               SameOutcome(World, repay(World, now, m, owner, 0, sh),
                                           repay(Unpaused(World), now, m, owner, 0, sh))
                        /\ SameOutcome(World, liquidate(World, now, price, m, owner, a),
                                       liquidate(Unpaused(World), now, price, m, owner, a))

(* With only the market paused, a repay has just succeeded on a position   *)
(* that still has debt, and a borrow on it is rejected with market_paused. *)
C8_Witness ==
    /\ HasMarket(Market1) /\ HasPosition(Market1, "bob")
    /\ ~protocol.paused /\ markets[Market1].paused
    /\ last.op = "repay" /\ last.err = "ok"
    /\ positions[<<Market1, "bob">>].borrow_shares > 0
    /\ borrow(World, now, price, "bob", Market1, "bob", NoAuthorization, 1, 0)
           = Fail("market_paused")

(* caller is the owner, or holds an authorization of the owner that is    *)
(* granted, not revoked and not expired at time t                          *)
Accepted(w, t, caller, owner) ==
    \/ caller = owner
    \/ \E k \in DOMAIN w.auths :
           /\ w.auths[k].authorizer = owner
           /\ w.auths[k].authorized = caller
           /\ w.auths[k].is_authorized
           /\ ~w.auths[k].is_revoked
           /\ (w.auths[k].expires_at = 0 \/ t < w.auths[k].expires_at)

(* C9: withdraw, borrow and withdraw_collateral accept the caller if and   *)
(* only if it is the owner of the position or holds a valid authorization  *)
(* of the owner: such a caller, passing that authorization, gets the       *)
(* outcome the owner gets; any other caller fails with unauthorized,       *)
(* whatever authorization account it passes.                               *)
C9_DelegationGate ==
    \A m \in DOMAIN markets : \A owner \in Users : HasPosition(m, owner) =>
        \A caller \in Users :
            LET w_own == withdraw(World, now, owner, m, owner, NoAuthorization, 1, 0)
                b_own == borrow(World, now, price, owner, m, owner, NoAuthorization, 1, 0)
                c_own == withdraw_collateral(World, now, price, owner, m, owner,
                                             NoAuthorization, 1)
            IN  IF Accepted(World, now, caller, owner)
                THEN /\ "unauthorized" \notin {w_own.err, b_own.err, c_own.err}
                     /\ \E x \in AuthorizationInputs :
                            /\ withdraw(World, now, caller, m, owner, x, 1, 0) = w_own
                            /\ borrow(World, now, price, caller, m, owner, x, 1, 0) = b_own
                            /\ withdraw_collateral(World, now, price, caller, m, owner,
                                                   x, 1) = c_own
                ELSE \A x \in AuthorizationInputs :
                         /\ withdraw(World, now, caller, m, owner, x, 1, 0)
                                = Fail("unauthorized")
                         /\ borrow(World, now, price, caller, m, owner, x, 1, 0)
                                = Fail("unauthorized")
                         /\ withdraw_collateral(World, now, price, caller, m, owner, x, 1)
                                = Fail("unauthorized")

(* alice has just borrowed on bob's position under bob's authorization;    *)
(* alice's own authorization for bob has expired, so bob is rejected on    *)
(* alice's position.                                                       *)
C9_Witness ==
    /\ last.op = "borrow" /\ last.caller = "alice" /\ last.owner = "bob"
    /\ last.err = "ok"
    /\ <<"bob", "alice">> \in DOMAIN auths
    /\ Accepted(World, now, "alice", "bob")
    /\ <<"alice", "bob">> \in DOMAIN auths
    /\ auths[<<"alice", "bob">>].is_authorized
    /\ auths[<<"alice", "bob">>].expires_at # 0
    /\ auths[<<"alice", "bob">>].expires_at <= now
    /\ ~Accepted(World, now, "bob", "alice")

(* A revoked authorization k is dead: not granted, refused by              *)
(* set_authorization whatever is asked, and its holder is not accepted on  *)
(* the authorizer's behalf                                                 *)
RevokedDead(k) ==
    /\ ~auths[k].is_authorized
    /\ \A b \in BOOLEAN : \A x \in Expiries :
           set_authorization(World, k[1], k[2], b, x) = Fail("authorization_revoked")
    /\ k[1] # k[2] =>
          /\ ~Accepted(World, now, k[2], k[1])
          /\ \A y \in AuthorizationInputs :
                 ~validate_authorization(World, now, k[2], k[1], y)

(* C10: revocation is permanent: a revoked authorization stays revoked in  *)
(* every later state, every set_authorization for its pair fails with      *)
(* authorization_revoked, and the authorized address is not accepted as a  *)
(* delegate of the authorizer again.                                       *)
C10_RevocationPermanent ==
    [][/\ \A k \in DOMAIN auths :
              auths[k].is_revoked => k \in DOMAIN auths' /\ auths'[k] = auths[k]
       /\ \A k \in DOMAIN auths' : auths'[k].is_revoked => RevokedDead(k)']_vars

(* A set_authorization for a revoked pair has just been refused. *)
C10_Witness ==
    /\ last.op = "set_authorization" /\ last.err = "authorization_revoked"
    /\ <<last.caller, last.owner>> \in DOMAIN auths
    /\ auths[<<last.caller, last.owner>>].is_revoked

(* C11: a delegate whose authorization is granted and not revoked but has  *)
(* expired (expires_at # 0 and now >= expires_at) is refused by withdraw,  *)
(* borrow and withdraw_collateral with the error authorization_expired.    *)
C11_ExpiredAuthorizationError ==
    \A k \in DOMAIN auths : \A m \in DOMAIN markets :
        (/\ k[1] # k[2] /\ HasPosition(m, k[1])
         /\ auths[k].is_authorized /\ ~auths[k].is_revoked
         /\ auths[k].expires_at # 0 /\ now >= auths[k].expires_at)
        => /\ withdraw(World, now, k[2], m, k[1], k, 1, 0)
                  = Fail("authorization_expired")
           /\ borrow(World, now, price, k[2], m, k[1], k, 1, 0)
                  = Fail("authorization_expired")
           /\ withdraw_collateral(World, now, price, k[2], m, k[1], k, 1)
                  = Fail("authorization_expired")

-----------------------------------------------------------------------------
(* Governance properties *)

UserOps == {"supply", "withdraw", "supply_collateral", "withdraw_collateral", "borrow", "repay", "liquidate", "flash_loan", "flash_loan_start", "flash_loan_end", "accrue_interest", "claim_fees", "set_authorization", "revoke_authorization", "create_position", "close_position"}

By(op, signer) == last'.op = op /\ last'.caller = signer /\ last'.err = "ok"

Refused(c) ==
    /\ c # protocol.owner =>
          /\ transfer_ownership(World, c, "alice") = Fail("unauthorized")
          /\ set_fee_recipient(World, c, "bob") = Fail("unauthorized")
          /\ enable_lltv(World, c, Lltv1) = Fail("unauthorized")
          /\ enable_irm(World, c, "irm") = Fail("unauthorized")
          /\ \A b \in BOOLEAN : set_protocol_paused(World, c, b) = Fail("unauthorized")
          /\ \A m \in DOMAIN markets :
                /\ \A b \in BOOLEAN : set_market_paused(World, c, m, b) = Fail("unauthorized")
                /\ \A f \in {0, MAX_FEE} : set_fee(World, c, m, f) = Fail("unauthorized")
    /\ c # protocol.pending_owner => accept_ownership(World, c) = Fail("unauthorized")

GovernedStep ==
    /\ protocol'.owner # protocol.owner => By("accept_ownership", protocol.pending_owner)
    /\ protocol'.pending_owner # protocol.pending_owner =>
          \/ By("transfer_ownership", protocol.owner)
          \/ By("accept_ownership", protocol.pending_owner)
    /\ protocol'.fee_recipient # protocol.fee_recipient =>
          By("set_fee_recipient", protocol.owner)
    /\ protocol'.paused # protocol.paused => By("set_protocol_paused", protocol.owner)
    /\ protocol'.enabled_lltvs # protocol.enabled_lltvs => By("enable_lltv", protocol.owner)
    /\ protocol'.enabled_irms # protocol.enabled_irms => By("enable_irm", protocol.owner)
    /\ \A m \in DOMAIN markets \cap DOMAIN markets' :
          /\ markets'[m].paused # markets[m].paused =>
                By("set_market_paused", protocol.owner) /\ last'.m = m
          /\ markets'[m].fee # markets[m].fee => By("set_fee", protocol.owner) /\ last'.m = m
    /\ last'.op \in UserOps => protocol' = protocol
    /\ last'.err = "unauthorized" => UNCHANGED <<protocol, markets, positions, auths, vaults>>

(* C12: owner, pending_owner, fee_recipient, the protocol pause flag and   *)
(* the LLTV and IRM whitelists, and each market's pause flag and fee,      *)
(* change only in a step of the matching admin operation signed by the     *)
(* current owner (accept_ownership: by the current pending owner); any     *)
(* other caller of an admin operation gets unauthorized and nothing        *)
(* changes; no user operation changes a field of ProtocolState.            *)
C12_AdminOnly == [](\A c \in Callers \cup Users : Refused(c)) /\ [][GovernedStep]_vars

C12_Witness ==
    /\ protocol.owner = "alice" /\ protocol.fee_recipient = "bob" /\ protocol.paused
    /\ HasMarket(Market1) /\ markets[Market1].fee = MAX_FEE /\ markets[Market1].paused
    /\ last.op = "set_fee" /\ last.caller = Admin /\ last.err = "unauthorized"

Committed(op) == last'.op = op /\ last'.err = "ok" /\ steps' = steps + 1

OwnerCallsFail(w, c) ==
    /\ transfer_ownership(w, c, c) = Fail("unauthorized")
    /\ set_fee_recipient(w, c, c) = Fail("unauthorized")
    /\ enable_lltv(w, c, Lltv1) = Fail("unauthorized")
    /\ enable_irm(w, c, "irm") = Fail("unauthorized")
    /\ set_protocol_paused(w, c, TRUE) = Fail("unauthorized")
    /\ \A m \in DOMAIN w.markets :
          /\ set_market_paused(w, c, m, TRUE) = Fail("unauthorized")
          /\ set_fee(w, c, m, 0) = Fail("unauthorized")

OwnershipStep ==
    /\ Committed("transfer_ownership") =>
          /\ last'.caller = protocol.owner
          /\ protocol' = [protocol EXCEPT !.pending_owner = last'.owner]
    /\ Committed("accept_ownership") =>
          /\ last'.caller = protocol.pending_owner
          /\ protocol' = [protocol EXCEPT !.owner = protocol.pending_owner,
                                          !.pending_owner = DefaultPubkey]
    /\ protocol'.owner # protocol.owner =>
          /\ Committed("accept_ownership")
          /\ OwnerCallsFail(World', protocol.owner)

(* C13: transfer_ownership by the owner only stores pending_owner and      *)
(* leaves owner as it is; owner changes only in an accept_ownership signed *)
(* by the stored pending owner, after which owner is that address,         *)
(* pending_owner is cleared and the admin calls of the previous owner fail *)
(* with unauthorized.                                                      *)
C13_TwoStepOwnership == [][OwnershipStep]_vars

C13_Witness ==
    /\ protocol.owner = "alice" /\ protocol.pending_owner = DefaultPubkey
    /\ last.op = "set_protocol_paused" /\ last.caller = Admin /\ last.err = "unauthorized"

-----------------------------------------------------------------------------
(* Accrual properties *)

AccrualIdle ==
    \A m \in DOMAIN markets :
        /\ markets[m].last_update <= now
        /\ \A t \in 0..markets[m].last_update :
               accrue(markets[m], t) = AccrualResult(markets[m], 0, 0)
        /\ LET once == accrue(markets[m], now) IN
           once.err = "ok" =>
               /\ once.market.last_update = now
               /\ accrue(once.market, now) = AccrualResult(once.market, 0, 0)

LastUpdateStep ==
    /\ now' >= now
    /\ \A m \in DOMAIN markets \cap DOMAIN markets' :
           markets'[m].last_update >= markets[m].last_update

(* C14: the clock being monotone, last_update of a market never decreases; *)
(* an accrual at a time not after last_update changes no field of the      *)
(* market, so that accruing a second time at the same timestamp changes    *)
(* nothing more.                                                           *)
C14_AccrualMonotone == []AccrualIdle /\ [][LastUpdateStep]_vars

C14_Witness ==
    /\ HasMarket(Market1) /\ markets[Market1].last_update = now /\ now > 1
    /\ markets[Market1].total_borrow_assets > 0 /\ markets[Market1].pending_fee_shares > 0
    /\ last.op = "accrue_interest" /\ last.err = "ok"

-----------------------------------------------------------------------------
(* Liquidation with bad debt *)

(* What liquidate does with the position before it looks at bad debt       *)
(* (liquidate.rs, lines 123-135): the collateral and the borrow shares     *)
(* left on the position, on the market as accrued.                         *)
LeftAfterSeizure(market, position, p, seized_assets) ==
    [collateral |-> position.collateral -
                        min(calculate_seized_collateral(seized_assets, p,
                                                        calculate_lif(market.lltv)),
                            position.collateral),
     borrow_shares |-> position.borrow_shares -
                        min(to_shares_down(seized_assets, market.total_borrow_assets,
                                           market.total_borrow_shares),
                            position.borrow_shares)]

BadDebtCase(m, borrower, seized_assets) ==
    /\ liquidate(World, now, price, m, borrower, seized_assets).err = "ok"
    /\ LET left == LeftAfterSeizure(accrue(markets[m], now).market,
                                    positions[<<m, borrower>>], price, seized_assets)
       IN  left.collateral = 0 /\ left.borrow_shares > 0

(* C15: a successful liquidate that leaves the position without collateral *)
(* while borrow shares remain on it ends with total_supply_assets strictly *)
(* below its value before the operation and with the position at          *)
(* borrow_shares = 0 and collateral = 0.                                   *)
C15_BadDebtSocialized ==
    \A k \in DOMAIN positions : \A a \in Amounts :
        BadDebtCase(k[1], k[2], a) =>
            LET w == liquidate(World, now, price, k[1], k[2], a).w IN
            /\ w.markets[k[1]].total_supply_assets < markets[k[1]].total_supply_assets
            /\ w.positions[k].borrow_shares = 0
            /\ w.positions[k].collateral = 0

(* C15, as the handler works: liquidate accrues interest first, so the     *)
(* bad debt is taken from total_supply_assets as accrued.  A successful    *)
(* liquidate with bad debt ends with total_supply_assets strictly below    *)
(* its accrued value (strictly below its value before the operation when   *)
(* no interest accrues in it), total_supply_shares as accrued, and the     *)
(* position at borrow_shares = 0 and collateral = 0.                       *)
C15_BadDebtBelowAccrued ==
    \A k \in DOMAIN positions : \A a \in Amounts :
        BadDebtCase(k[1], k[2], a) =>
            LET w == liquidate(World, now, price, k[1], k[2], a).w
                accrued == accrue(markets[k[1]], now).market
            IN
            /\ w.markets[k[1]].total_supply_assets < accrued.total_supply_assets
            /\ accrued.total_supply_assets = markets[k[1]].total_supply_assets =>
                   w.markets[k[1]].total_supply_assets < markets[k[1]].total_supply_assets
            /\ w.markets[k[1]].total_supply_shares = accrued.total_supply_shares
            /\ w.positions[k].borrow_shares = 0
            /\ w.positions[k].collateral = 0

C15_Witness ==
    /\ last.op = "liquidate" /\ last.err = "ok" /\ HasPosition(Market1, "bob")
    /\ positions[<<Market1, "bob">>].borrow_shares = 0
    /\ positions[<<Market1, "bob">>].collateral = 0
    /\ markets[Market1].fee = 0 /\ markets[Market1].pending_fee_shares = 0
    /\ markets[Market1].total_supply_assets * VIRTUAL_SHARES
           < markets[Market1].total_supply_shares
-----------------------------------------------------------------------------
(* Share accounting *)

(* supply of a on the position k at the clock, then withdraw of exactly    *)
(* the shares credited, at the same timestamp.                             *)
Credited(k, a) ==
    supply(World, now, k[1], k[2], a, 0).w.positions[k].supply_shares
        - positions[k].supply_shares

RoundTrip(k, a) ==
    withdraw(supply(World, now, k[1], k[2], a, 0).w, now, k[2], k[1], k[2],
             NoAuthorization, 0, Credited(k, a))

RoundTripDone(k, a) ==
    /\ markets[k[1]].fee = 0 /\ a > 0
    /\ supply(World, now, k[1], k[2], a, 0).err = "ok"
    /\ RoundTrip(k, a).err = "ok"

Recovered(k, a) ==
    supply(World, now, k[1], k[2], a, 0).w.vaults[k[1]].loan
        - RoundTrip(k, a).w.vaults[k[1]].loan

(* C16: with fee = 0, a supply of a > 0 followed at the same timestamp by  *)
(* a withdraw of exactly the shares it credited pays out at most a.        *)
C16_RoundTripNoGain ==
    \A k \in DOMAIN positions : \A a \in Amounts :
        RoundTripDone(k, a) =>
            /\ Recovered(k, a) <= a
            /\ RoundTrip(k, a).w.positions[k].supply_shares = positions[k].supply_shares

C16_Witness ==
    \E k \in DOMAIN positions : \E a \in Amounts :
        /\ RoundTripDone(k, a) /\ Recovered(k, a) < a
        /\ markets[k[1]].total_borrow_assets > 0 /\ markets[k[1]].last_update < now

-----------------------------------------------------------------------------
(* Computations.  The conversions of math/shares.rs, the first-deposit     *)
(* scenario of its tests and the liquidation incentive are applied to      *)
(* arguments drawn at the start; with no computation drawn, a market is    *)
(* set up and used, so that the handlers convert on its totals.            *)

ConvertAmounts == {0, 1, 2, 3, 7, 1000000, 1500001}
ConvertAssets == {0, 1, 2, 3, 10}
ConvertShares == {0, 1000000, 2000000, 2999999}

ConvertInputs ==
    {[kind |-> "convert", x |-> x, y |-> y, z |-> z, out |-> <<>>] :
        x \in ConvertAmounts, y \in ConvertAssets, z \in ConvertShares}

Convert ==
    /\ calc.kind = "convert" /\ calc.out = <<>>
    /\ calc' = [calc EXCEPT !.out = <<to_shares_down(calc.x, calc.y, calc.z),
                                      to_shares_up(calc.x, calc.y, calc.z),
                                      to_assets_down(calc.x, calc.y, calc.z),
                                      to_assets_up(calc.x, calc.y, calc.z)>>]
    /\ UNCHANGED <<protocol, markets, positions, auths, vaults, now, price, last, tx_base,
                   flash, steps>>

(* The same conversions on the supply totals of the market in use. *)
ConvertOnMarket(x) ==
    /\ calc = NoCalc /\ HasMarket(Market1)
    /\ calc' = [kind |-> "convert", x |-> x,
                y |-> markets[Market1].total_supply_assets,
                z |-> markets[Market1].total_supply_shares,
                out |-> <<to_shares_down(x, markets[Market1].total_supply_assets,
                                         markets[Market1].total_supply_shares),
                          to_shares_up(x, markets[Market1].total_supply_assets,
                                       markets[Market1].total_supply_shares),
                          to_assets_down(x, markets[Market1].total_supply_assets,
                                         markets[Market1].total_supply_shares),
                          to_assets_up(x, markets[Market1].total_supply_assets,
                                       markets[Market1].total_supply_shares)>>]
    /\ UNCHANGED <<protocol, markets, positions, auths, vaults, now, price, last, tx_base,
                   flash, steps>>

Ledger ==
    \/ calc = NoCalc /\ ~is_lltv_enabled(protocol, Lltv1) /\ EnableLltv(Admin, Lltv1)
    \/ calc = NoCalc /\ ~is_irm_enabled(protocol, "irm") /\ EnableIrm(Admin, "irm")
    \/ calc = NoCalc /\ ~HasMarket(Market1)
          /\ CreateMarket(Admin, "COLL", "LOAN", "oracle", "irm", Lltv1)
    \/ \E u \in Users : calc = NoCalc /\ ~HasPosition(Market1, u)
          /\ CreatePosition(u, Market1, u)
    \/ \E a \in Amounts : calc = NoCalc /\ Supply("alice", Market1, "alice", a, 0)
    \/ calc = NoCalc /\ SupplyCollateral("bob", Market1, "bob", MaxCollateral)
    \/ \E a \in Amounts : calc = NoCalc /\ Borrow("bob", Market1, "bob", NoAuthorization, a, 0)
    \/ calc = NoCalc /\ Tick
    \/ \E p \in Prices : calc = NoCalc /\ OracleUpdate(p)

(* test_inflation_attack_protection: the first deposit x into the empty    *)
(* market, the donation y added to the total assets, the deposit z of the  *)
(* victim and what the victim's shares redeem for after it.                *)
FirstDeposits == {1, 2}
Donations == {0, 1000, 29999998, 149999998}
VictimDeposits == {1, 5, 500, 1000}

InflateInputs ==
    {[kind |-> "inflate", x |-> x, y |-> y, z |-> z, out |-> <<>>] :
        x \in FirstDeposits, y \in Donations, z \in VictimDeposits}

AttackerShares(a1) == to_shares_down(a1, 0, 0)

VictimShares(a1, d, v) ==
    IF IsErr(AttackerShares(a1)) THEN AttackerShares(a1)
    ELSE to_shares_down(v, a1 + d, AttackerShares(a1))

VictimValue(a1, d, v) ==
    IF IsErr(VictimShares(a1, d, v)) THEN VictimShares(a1, d, v)
    ELSE to_assets_down(VictimShares(a1, d, v), a1 + d + v,
                        AttackerShares(a1) + VictimShares(a1, d, v))

Inflate ==
    /\ calc.kind = "inflate" /\ calc.out = <<>>
    /\ calc' = [calc EXCEPT !.out = <<AttackerShares(calc.x),
                                      VictimShares(calc.x, calc.y, calc.z),
                                      VictimValue(calc.x, calc.y, calc.z)>>]
    /\ UNCHANGED <<protocol, markets, positions, auths, vaults, now, price, last, tx_base,
                   flash, steps>>

LltvInputs == {1, 9900, 9999} \cup {500 * i : i \in 1..20}

LifInputs ==
    {[kind |-> "lif", x |-> x, y |-> 0, z |-> 0, out |-> <<>>] : x \in LltvInputs}

Lif ==
    /\ calc.kind = "lif" /\ calc.out = <<>>
    /\ calc' = [calc EXCEPT !.out = <<calculate_lif(calc.x)>>]
    /\ UNCHANGED <<protocol, markets, positions, auths, vaults, now, price, last, tx_base,
                   flash, steps>>

InitMath ==
    /\ protocol = initialize(Admin, "alice")
    /\ markets = <<>>
    /\ positions = <<>>
    /\ auths = <<>>
    /\ vaults = <<>>
    /\ now = 1
    /\ price = ORACLE_SCALE
    /\ last = [op |-> "initialize", caller |-> Admin, m |-> NoMarket,
               owner |-> DefaultPubkey, err |-> "ok"]
    /\ tx_base = NoTx
    /\ flash = <<>>
    /\ steps = 0
    /\ calc \in {NoCalc} \cup ConvertInputs \cup InflateInputs \cup LifInputs

NextMath ==
    \/ Convert
    \/ \E x \in ConvertAmounts : ConvertOnMarket(x)
    \/ Inflate
    \/ Lif
    \/ Ledger

SpecMath == InitMath /\ [][NextMath]_vars

-----------------------------------------------------------------------------
(* Rounding of the conversions *)

(* down <= x * n / d <= up, with up - down at most 1 *)
Brackets(down, up, x, n, d) ==
    (~IsErr(down) /\ ~IsErr(up)) =>
        /\ down * d <= x * n /\ x * n <= up * d
        /\ up - down \in {0, 1}

ConversionsBracket ==
    (calc.kind = "convert" /\ calc.out # <<>>) =>
        /\ Brackets(calc.out[1], calc.out[2], calc.x,
                    calc.z + VIRTUAL_SHARES, calc.y + VIRTUAL_ASSETS)
        /\ Brackets(calc.out[3], calc.out[4], calc.x,
                    calc.y + VIRTUAL_ASSETS, calc.z + VIRTUAL_SHARES)

(* What a handler that succeeds moves: shares on the position k, loan      *)
(* tokens in the vault of its market.                                      *)
SupplySharesDelta(r, k) == r.w.positions[k].supply_shares - positions[k].supply_shares

BorrowSharesDelta(r, k) == r.w.positions[k].borrow_shares - positions[k].borrow_shares

LoanDelta(r, k) == r.w.vaults[k[1]].loan - vaults[k[1]].loan

HandlersRoundAt(k, acc) ==
    /\ \A a \in Amounts :
          /\ LET r == supply(World, now, k[1], k[2], a, 0) IN
             r.err = "ok" =>
                 SupplySharesDelta(r, k)
                     = to_shares_down(a, acc.total_supply_assets, acc.total_supply_shares)
          /\ LET r == borrow(World, now, price, k[2], k[1], k[2], NoAuthorization, a, 0) IN
             r.err = "ok" =>
                 BorrowSharesDelta(r, k)
                     = to_shares_up(a, acc.total_borrow_assets, acc.total_borrow_shares)
          /\ LET r == withdraw(World, now, k[2], k[1], k[2], NoAuthorization, a, 0) IN
             r.err = "ok" =>
                 0 - SupplySharesDelta(r, k)
                     = to_shares_up(a, acc.total_supply_assets, acc.total_supply_shares)
          /\ LET r == repay(World, now, k[1], k[2], a, 0) IN
             r.err = "ok" =>
                 LoanDelta(r, k)
                     = to_assets_up(0 - BorrowSharesDelta(r, k), acc.total_borrow_assets,
                                    acc.total_borrow_shares)
          /\ LET r == liquidate(World, now, price, k[1], k[2], a) IN
             r.err = "ok" =>
                 LoanDelta(r, k)
                     = to_assets_up(positions[k].borrow_shares
                                      - LeftAfterSeizure(acc, positions[k], price,
                                                         a).borrow_shares,
                                    acc.total_borrow_assets, acc.total_borrow_shares)
    /\ \A s \in SupplyShareInputs(k[1], k[2]) \cup {VIRTUAL_SHARES} :
          LET r == withdraw(World, now, k[2], k[1], k[2], NoAuthorization, 0, s) IN
          r.err = "ok" =>
              0 - LoanDelta(r, k)
                  = to_assets_down(s, acc.total_supply_assets, acc.total_supply_shares)
    /\ \A s \in BorrowShareInputs(k[1], k[2]) \cup {VIRTUAL_SHARES} :
          LET r == repay(World, now, k[1], k[2], 0, s) IN
          r.err = "ok" =>
              LoanDelta(r, k)
                  = to_assets_up(0 - BorrowSharesDelta(r, k), acc.total_borrow_assets,
                                 acc.total_borrow_shares)

HandlersRound ==
    \A k \in DOMAIN positions :
        accrue(markets[k[1]], now).err = "ok" =>
            HandlersRoundAt(k, accrue(markets[k[1]], now).market)

(* C17: where nothing overflows, to_shares_down <= exact <= to_shares_up   *)
(* and to_assets_down <= exact <= to_assets_up, up and down differing by   *)
(* 0 or 1; supply credits to_shares_down of the assets, borrow debits      *)
(* to_shares_up, withdraw by shares pays to_assets_down, withdraw by       *)
(* assets burns to_shares_up, repay and liquidate charge to_assets_up of   *)
(* the shares they burn, all on the totals as accrued.                     *)
C17_RoundingDiscipline == ConversionsBracket /\ HandlersRound

C17_Witness ==
    /\ calc.kind = "convert" /\ calc.out # <<>> /\ calc.x > 0
    /\ HasMarket(Market1)
    /\ calc.y = markets[Market1].total_supply_assets
    /\ calc.z = markets[Market1].total_supply_shares
    /\ ~IsErr(calc.out[1]) /\ ~IsErr(calc.out[2])
    /\ ~IsErr(calc.out[3]) /\ calc.out[4] = calc.out[3] + 1
    /\ \E k \in DOMAIN positions :
          /\ repay(World, now, k[1], k[2], 1, 0).err = "ok"
          /\ borrow(World, now, price, k[2], k[1], k[2], NoAuthorization, 1, 0).err = "ok"

-----------------------------------------------------------------------------
(* First-deposit inflation *)

Inflated ==
    /\ calc.kind = "inflate" /\ calc.out # <<>>
    /\ ~IsErr(calc.out[1]) /\ ~IsErr(calc.out[2]) /\ ~IsErr(calc.out[3])

(* C18, as stated: after a first deposit x and a donation y, the shares    *)
(* credited for a deposit z redeem at the totals after it for at least     *)
(* z - 10, whatever the donation.                                          *)
C18_InflationLossAtMostTen == Inflated => calc.out[3] >= calc.z - 10

(* C18, as the conversions work: the redemption value is at most z and     *)
(* falls short of z by less than                                           *)
(*   (x + y + VIRTUAL_ASSETS) / (total shares after + VIRTUAL_SHARES) + 1, *)
(* a bound that grows with the donation y.                                 *)
C18_InflationLossBound ==
    Inflated =>
        /\ calc.out[3] <= calc.z
        /\ (calc.z - calc.out[3] - 1) * (calc.out[1] + calc.out[2] + VIRTUAL_SHARES)
               < calc.x + calc.y + VIRTUAL_ASSETS

C18_Witness == Inflated /\ calc.z - calc.out[3] > 10

-----------------------------------------------------------------------------
(* Liquidation incentive *)

LifComputed == calc.kind = "lif" /\ calc.out # <<>>

(* C19: for an LLTV l in (0, BPS], the liquidation incentive factor is     *)
(* min(MAX_LIF, BPS * BPS / (BPS - LIF_CURSOR * (BPS - l) / BPS)), lies in *)
(* [10000, 11500], does not increase with l, and                           *)
(* LIF(8000) > LIF(8500) > LIF(9000).                                      *)
C19_LifRange ==
    (LifComputed /\ calc.x > 0 /\ calc.x <= BPS) =>
        /\ calc.out[1] = min(MAX_LIF,
                             (BPS * BPS) \div (BPS - (LIF_CURSOR * (BPS - calc.x)) \div BPS))
        /\ 10000 <= calc.out[1] /\ calc.out[1] <= 11500
        /\ \A l \in LltvInputs : l >= calc.x => calculate_lif(l) <= calc.out[1]
        /\ calc.x = 8000 => calc.out[1] > calculate_lif(8500)
        /\ calc.x = 8500 => calc.out[1] > calculate_lif(9000)

C19_Witness == LifComputed /\ calc.x = 8500 /\ calc.out[1] > BPS /\ calc.out[1] < MAX_LIF

-----------------------------------------------------------------------------
(* Protocol fees: the market earns interest under a fee while the owner    *)
(* sets the fee and moves the fee recipient, and the fee shares are        *)
(* claimed and withdrawn.                                                  *)

Revenue ==
    \/ Supply("alice", Market1, "alice", MaxAmount, 0)
    \/ SupplyCollateral("bob", Market1, "bob", MaxCollateral)
    \/ Borrow("bob", Market1, "bob", NoAuthorization, 1, 0)
    \/ Repay("bob", Market1, "bob", 1, 0)
    \/ \E u \in Users : \E s \in SupplyShareInputs(Market1, u) :
           Withdraw(u, Market1, u, NoAuthorization, 0, s)
    \/ \E u \in Users : SetFeeRecipient(Admin, u)
    \/ Tick

(* The accounts once the owner has enabled the LLTV and the IRM and the     *)
(* market and both positions have been created.                            *)
Fresh == [protocol |-> initialize(Admin, "alice"), markets |-> <<>>, positions |-> <<>>, auths |-> <<>>, vaults |-> <<>>, log |-> <<>>]

Listed == enable_irm(enable_lltv(Fresh, Admin, Lltv1).w, Admin, "irm").w

Opened == create_market(Listed, 1, "COLL", "LOAN", "oracle", "irm", Lltv1).w

MarketReady == create_position(create_position(Opened, Market1, "alice").w, Market1, "bob").w

InitFees ==
    /\ protocol = MarketReady.protocol
    /\ markets = MarketReady.markets
    /\ positions = MarketReady.positions
    /\ auths = MarketReady.auths
    /\ vaults = MarketReady.vaults
    /\ now = 1
    /\ price = ORACLE_SCALE
    /\ last = [op |-> "create_position", caller |-> "bob", m |-> Market1,
               owner |-> "bob", err |-> "ok"]
    /\ tx_base = NoTx
    /\ flash = <<>>
    /\ steps = 0
    /\ calc = NoCalc

NextFees == Revenue \/ Fees

SpecFees == InitFees /\ [][NextFees]_vars

PendingWithinSupply ==
    \A m \in DOMAIN markets :
        markets[m].pending_fee_shares <= markets[m].total_supply_shares

(* The fee shares of the step are those the accrual at the clock mints,    *)
(* and the accrual adds them to total_supply_shares as well.               *)
MintedByAccrual(m) ==
    LET acc == accrue(markets[m], now) IN
    /\ acc.err = "ok" /\ last'.m = m /\ last'.err = "ok"
    /\ markets'[m].pending_fee_shares - markets[m].pending_fee_shares = acc.fee_shares
    /\ acc.market.pending_fee_shares = markets'[m].pending_fee_shares
    /\ acc.market.total_supply_shares = markets[m].total_supply_shares + acc.fee_shares
    /\ last'.op = "accrue_interest" =>
           markets'[m].total_supply_shares
               = markets[m].total_supply_shares + acc.fee_shares

ClaimedToRecipient(m) ==
    /\ last'.op = "claim_fees" /\ last'.m = m /\ last'.err = "ok"
    /\ markets'[m] = [markets[m] EXCEPT !.pending_fee_shares = 0]
    /\ positions'[<<m, protocol.fee_recipient>>].supply_shares
           = positions[<<m, protocol.fee_recipient>>].supply_shares
               + markets[m].pending_fee_shares

PendingStep ==
    \A m \in DOMAIN markets \cap DOMAIN markets' :
        /\ markets'[m].pending_fee_shares > markets[m].pending_fee_shares =>
               MintedByAccrual(m)
        /\ markets'[m].pending_fee_shares < markets[m].pending_fee_shares =>
               ClaimedToRecipient(m)
        /\ (Committed("claim_fees") /\ last'.m = m) =>
               /\ markets'[m].pending_fee_shares = 0
               /\ markets'[m].total_supply_shares = markets[m].total_supply_shares
               /\ markets'[m].total_supply_assets = markets[m].total_supply_assets

(* C20: pending_fee_shares never exceeds total_supply_shares; it grows     *)
(* only by the fee shares an interest accrual mints, which the accrual     *)
(* adds to total_supply_shares in the same step; it shrinks only in        *)
(* claim_fees, which moves the whole pending amount to the supply_shares   *)
(* of the current fee recipient's position, sets pending_fee_shares to 0   *)
(* and leaves total_supply_shares and total_supply_assets as they were.    *)
C20_PendingFeeShares == []PendingWithinSupply /\ [][PendingStep]_vars

C20_Witness ==
    /\ last.op = "claim_fees" /\ last.err = "ok" /\ protocol.fee_recipient = "bob"
    /\ HasPosition(Market1, "bob") /\ positions[<<Market1, "bob">>].supply_shares > 0
    /\ markets[Market1].pending_fee_shares = 0

-----------------------------------------------------------------------------
(* Failure atomicity *)

Accounts == <<protocol, markets, positions, auths, vaults>>

(* The interest accrual the operation starts with adds interest to the     *)
(* totals of the market m                                                  *)
Accruing(m) ==
    /\ HasMarket(m)
    /\ accrue(markets[m], now).err = "ok"
    /\ accrue(markets[m], now).interest > 0

-----------------------------------------------------------------------------
(* Order of the writes and the transfers inside one operation *)

LogOf(r) == IF r.err = "ok" THEN r.w.log ELSE <<>>

(* no account write follows a token transfer *)
TransfersLast(log) ==
    \A i \in 1..Len(log) : \A j \in (i + 1)..Len(log) :
        log[i] = "transfer" => log[j] = "transfer"

(* The logs of the operations that move tokens, run on the accounts as     *)
(* they are, lender's position supplying and borrower's position owing;    *)
(* a failed operation writes and transfers nothing                         *)
LendingLogs(m, lender, borrower) ==
    {LogOf(supply(World, now, m, lender, a, 0)) : a \in Amounts}
    \cup {LogOf(withdraw(World, now, lender, m, lender, NoAuthorization, a, 0)) : a \in Amounts}
    \cup {LogOf(supply_collateral(World, m, borrower, a)) : a \in Amounts}
    \cup {LogOf(withdraw_collateral(World, now, price, borrower, m, borrower, NoAuthorization, a)) : a \in Amounts}
    \cup {LogOf(borrow(World, now, price, borrower, m, borrower, NoAuthorization, a, 0)) : a \in Amounts}
    \cup {LogOf(repay(World, now, m, borrower, a, 0)) : a \in Amounts}
    \cup {LogOf(liquidate(World, now, price, m, borrower, a)) : a \in Amounts}
    \cup {LogOf(flash_loan_start(World, m, a)) : a \in Amounts}

FlashLoanLogs(m) ==
    {LogOf(flash_loan_end(World, m, a)) : a \in {0} \cup Amounts}
    \cup {LogOf(flash_loan(World, m, a)) : a \in Amounts}

Funded(m, lender, borrower) == HasMarket(m) /\ HasPosition(m, lender) /\ HasPosition(m, borrower)

(* C22: in supply, withdraw, supply_collateral, withdraw_collateral,       *)
(* borrow, repay, liquidate, flash_loan_start, flash_loan_end and          *)
(* flash_loan every write to the market and to a position is made before   *)
(* the operation's first token transfer: no write follows a transfer       *)
C22_EffectsBeforeInteractions ==
    Funded(Market1, "alice", "bob") =>
        \A log \in LendingLogs(Market1, "alice", "bob") \cup FlashLoanLogs(Market1) :
            TransfersLast(log)

-----------------------------------------------------------------------------
(* Two markets: a second market with another LLTV exists beside the first, *)
(* alice and bob hold a position in each, and every market operation is    *)
(* invoked on either market as the clock advances.                         *)

Lltv2 == 9000

Market2 == calculate_market_id("COLL", "LOAN", "oracle", "irm", Lltv2)

BothMarkets == {Market1, Market2}

Opened2 == create_market(enable_lltv(MarketReady, Admin, Lltv2).w, 1, "COLL", "LOAN", "oracle", "irm", Lltv2).w

TwoMarkets == create_position(create_position(Opened2, Market2, "alice").w, Market2, "bob").w

InitTwo ==
    /\ protocol = TwoMarkets.protocol
    /\ markets = TwoMarkets.markets
    /\ positions = TwoMarkets.positions
    /\ auths = TwoMarkets.auths
    /\ vaults = TwoMarkets.vaults
    /\ now = 1
    /\ price = ORACLE_SCALE
    /\ last = [op |-> "create_position", caller |-> "bob", m |-> Market2,
               owner |-> "bob", err |-> "ok"]
    /\ tx_base = NoTx
    /\ flash = <<>>
    /\ steps = 0
    /\ calc = NoCalc

MaxTwoOps == 6

(* The market an operation is invoked on, while operations remain *)
Chosen == IF steps < MaxTwoOps THEN BothMarkets ELSE {}

OnEither ==
    \/ \E m \in Chosen : Supply("alice", m, "alice", MaxAmount, 0)
    \/ \E m \in Chosen : Withdraw("alice", m, "alice", NoAuthorization, 1, 0)
    \/ \E m \in Chosen : SupplyCollateral("bob", m, "bob", MaxAmount)
    \/ \E m \in Chosen : Borrow("bob", m, "bob", NoAuthorization, 1, 0)
    \/ \E m \in Chosen : Repay("bob", m, "bob", 1, 0)
    \/ \E m \in Chosen : Liquidate("alice", m, "bob", 1)
    \/ \E m \in Chosen : FlashLoanStart("bob", m, 1)
    \/ \E m \in Chosen : FlashLoanEnd("bob", m, 1)
    \/ \E m \in Chosen : AccrueInterest("alice", m)
    \/ \E m \in Chosen : SetFee(Admin, m, MAX_FEE)
    \/ \E m \in Chosen : SetMarketPaused(Admin, m, TRUE)

NextTwo == OnEither \/ Tick

SpecTwo == InitTwo /\ [][NextTwo]_vars

(* The positions of the market m in the position accounts ps *)
PositionsOf(ps, m) == [k \in {x \in DOMAIN ps : x[1] = m} |-> ps[k]]

(* The step leaves the market m, its positions and its two vaults alone *)
Untouched(m) ==
    /\ markets'[m] = markets[m]
    /\ vaults'[m] = vaults[m]
    /\ PositionsOf(positions', m) = PositionsOf(positions, m)

(* C23: an operation on the market M leaves every other market's record    *)
(* (totals, last_update, paused, fee, flash_loan_lock), its positions and   *)
(* its two vault balances unchanged                                        *)
C23_MarketsIsolated == [][\A m \in DOMAIN markets : m # last'.m => Untouched(m)]_vars

(* a liquidation has just succeeded on the second market while the first   *)
(* holds supply shares and collateral of its own                           *)
C23_Witness ==
    /\ last.op = "liquidate" /\ last.err = "ok" /\ last.m = Market2
    /\ markets[Market1].total_supply_shares > 0
    /\ vaults[Market1]["collateral"] > 0

-----------------------------------------------------------------------------
(* Listing: the owner has enabled all but one of the LLTVs and of the IRMs *)
(* the whitelists can hold; the owner enables more (valid, invalid, already *)
(* present), anyone creates markets on enabled and on unlisted parameters, *)
(* for a new and for an existing tuple, and the markets are used.          *)

IrmNames == <<"irm", "irm2", "irm3", "irm4", "irm5", "irm6", "irm7", "irm8", "irm9", "irm10", "irm11">>

RECURSIVE WithLltvs(_, _)
WithLltvs(w, n) == IF n = 0 THEN w ELSE enable_lltv(WithLltvs(w, n - 1), Admin, 500 * n).w

RECURSIVE WithIrms(_, _)
WithIrms(w, n) == IF n = 0 THEN w ELSE enable_irm(WithIrms(w, n - 1), Admin, IrmNames[n]).w

Listing == WithIrms(WithLltvs(Fresh, MAX_LLTVS - 1), MAX_IRMS - 1)

InitListing ==
    /\ protocol = Listing.protocol
    /\ markets = Listing.markets
    /\ positions = Listing.positions
    /\ auths = Listing.auths
    /\ vaults = Listing.vaults
    /\ now = 1
    /\ price = ORACLE_SCALE
    /\ last = [op |-> "enable_irm", caller |-> Admin, m |-> NoMarket,
               owner |-> DefaultPubkey, err |-> "ok"]
    /\ tx_base = NoTx
    /\ flash = <<>>
    /\ steps = 0
    /\ calc = NoCalc

MaxListOps == 8

(* The inputs in S, while operations remain *)
Quota(S) == IF steps < MaxListOps THEN S ELSE {}

LltvChoices == {0, 500, BPS - 1, BPS, BPS + 1}

IrmChoices == {"irm", "irm10", "irm11"}

MarketChoices == {<<"irm", Lltv1>>, <<"irm10", BPS>>, <<"irm", 1>>, <<"irm12", Lltv1>>}

FeeChoices == {0, MAX_FEE, MAX_FEE + 1}

Whitelist ==
    \/ \E l \in Quota(LltvChoices) : EnableLltv(Admin, l)
    \/ \E i \in Quota(IrmChoices) : EnableIrm(Admin, i)

Markets ==
    \/ \E x \in Quota(MarketChoices) :
           CreateMarket("bob", "COLL", "LOAN", "oracle", x[1], x[2])
    \/ \E m \in Quota(DOMAIN markets) : \E f \in FeeChoices : SetFee(Admin, m, f)
    \/ \E m \in Quota(DOMAIN markets) : SetMarketPaused(Admin, m, TRUE)
    \/ \E u \in Quota({"alice"}) : ~HasPosition(Market1, u) /\ CreatePosition(u, Market1, u)
    \/ \E a \in Quota({MaxAmount}) : Supply("alice", Market1, "alice", a, 0)
    \/ \E u \in Quota({"alice"}) : AccrueInterest(u, Market1)
    \/ Tick

NextListing == Whitelist \/ Markets

SpecListing == InitListing /\ [][NextListing]_vars

(* The values a whitelist holds *)
Enabled(list) == {list[i] : i \in 1..Len(list)}

MarketParameters(market) ==
    <<market.collateral_mint, market.loan_mint, market.oracle, market.irm, market.lltv>>

StartsEmpty(market) ==
    /\ Totals(market) = <<0, 0, 0, 0>>
    /\ market.pending_fee_shares = 0
    /\ market.fee = 0
    /\ ~market.paused
    /\ market.flash_loan_lock = 0

(* What create_market does on the accounts as they are, for the IRM i and  *)
(* the LLTV l                                                              *)
CreateMarketChecked(i, l) ==
    LET m == calculate_market_id("COLL", "LOAN", "oracle", i, l)
        r == create_market(World, now, "COLL", "LOAN", "oracle", i, l)
    IN  /\ r.err = "ok" <=> /\ m \notin DOMAIN markets
                            /\ l \in Enabled(protocol.enabled_lltvs)
                            /\ i \in Enabled(protocol.enabled_irms)
        /\ m \notin DOMAIN markets /\ l \notin Enabled(protocol.enabled_lltvs)
              => r.err = "lltv_not_enabled"
        /\ m \notin DOMAIN markets /\ l \in Enabled(protocol.enabled_lltvs)
              /\ i \notin Enabled(protocol.enabled_irms)
              => r.err = "irm_not_enabled"
        /\ r.err = "ok" =>
              /\ DOMAIN r.w.markets = DOMAIN markets \cup {m}
              /\ \A x \in DOMAIN markets : r.w.markets[x] = markets[x]
              /\ MarketParameters(r.w.markets[m]) = <<"COLL", "LOAN", "oracle", i, l>>
              /\ StartsEmpty(r.w.markets[m])

MarketsByTuple ==
    \A m \in DOMAIN markets : markets[m].market_id = m /\ MarketParameters(markets[m]) = m

MarketStep ==
    /\ \A m \in DOMAIN markets :
          /\ m \in DOMAIN markets'
          /\ markets'[m].market_id = markets[m].market_id
          /\ MarketParameters(markets'[m]) = MarketParameters(markets[m])
    /\ DOMAIN markets' # DOMAIN markets =>
          /\ Committed("create_market")
          /\ last'.m \notin DOMAIN markets
          /\ DOMAIN markets' = DOMAIN markets \cup {last'.m}
          /\ StartsEmpty(markets'[last'.m])

(* C24: create_market succeeds exactly when the LLTV is enabled, the IRM   *)
(* is enabled and no market exists for the tuple (collateral_mint,         *)
(* loan_mint, oracle, irm, lltv); it fails with lltv_not_enabled for an    *)
(* LLTV that is not enabled, with irm_not_enabled for an IRM that is not,  *)
(* and fails for a tuple that has a market; so each tuple has at most one  *)
(* market, whose identity parameters never change, and a market starts     *)
(* with its four totals 0, pending_fee_shares 0, fee 0, not paused and     *)
(* flash_loan_lock 0                                                       *)
C24_CreateMarket == [](MarketsByTuple /\ \A x \in MarketChoices : CreateMarketChecked(x[1], x[2])) /\ [][MarketStep]_vars

(* a second create_market for the tuple of a market in use has just been   *)
(* refused, beside another market                                          *)
C24_Witness ==
    /\ last.op = "create_market" /\ last.err = "account_in_use" /\ last.m = Market1
    /\ markets[Market1].total_supply_shares > 0 /\ markets[Market1].fee = MAX_FEE
    /\ Cardinality(DOMAIN markets) = 2

-----------------------------------------------------------------------------
(* The whitelists *)

Distinct(list) == Cardinality(Enabled(list)) = Len(list)

WhitelistsBounded ==
    /\ Len(protocol.enabled_lltvs) <= MAX_LLTVS
    /\ Distinct(protocol.enabled_lltvs)
    /\ \A l \in Enabled(protocol.enabled_lltvs) : l > 0 /\ l <= BPS
    /\ Len(protocol.enabled_irms) <= MAX_IRMS
    /\ Distinct(protocol.enabled_irms)

(* What enable_lltv, called by the owner, does on the accounts as they are *)
EnableLltvChecked(l) ==
    LET r == enable_lltv(World, protocol.owner, l)
        list == protocol.enabled_lltvs
    IN  /\ ~(l > 0 /\ l <= BPS) => r.err = "invalid_lltv"
        /\ l > 0 /\ l <= BPS /\ Len(list) = MAX_LLTVS => r.err = "max_lltvs_reached"
        /\ l > 0 /\ l <= BPS /\ Len(list) < MAX_LLTVS /\ l \in Enabled(list)
              => r.err = "already_enabled"
        /\ l > 0 /\ l <= BPS /\ Len(list) < MAX_LLTVS /\ l \notin Enabled(list)
              => /\ r.err = "ok"
                 /\ r.w.protocol = [protocol EXCEPT !.enabled_lltvs = Append(list, l)]

EnableIrmChecked(i) ==
    LET r == enable_irm(World, protocol.owner, i)
        list == protocol.enabled_irms
    IN  /\ Len(list) = MAX_IRMS => r.err = "max_irms_reached"
        /\ Len(list) < MAX_IRMS /\ i \in Enabled(list) => r.err = "already_enabled"
        /\ Len(list) < MAX_IRMS /\ i \notin Enabled(list)
              => /\ r.err = "ok"
                 /\ r.w.protocol = [protocol EXCEPT !.enabled_irms = Append(list, i)]

(* A whitelist changes by one value appended in a committed enable; an     *)
(* enable that is rejected leaves both lists and their lengths as they are *)
WhitelistStep ==
    /\ protocol'.enabled_lltvs # protocol.enabled_lltvs =>
          /\ Committed("enable_lltv")
          /\ \E l \in 1..BPS : protocol'.enabled_lltvs = Append(protocol.enabled_lltvs, l)
    /\ protocol'.enabled_irms # protocol.enabled_irms =>
          /\ Committed("enable_irm")
          /\ Len(protocol'.enabled_irms) = Len(protocol.enabled_irms) + 1
    /\ last'.op \in {"enable_lltv", "enable_irm"} /\ last'.err # "ok" => protocol' = protocol

(* C25: enabled_lltvs holds at most 20 values, pairwise distinct, each in  *)
(* (0, BPS], and enabled_irms at most 10 pairwise distinct addresses;      *)
(* enable_lltv rejects 0 and values above BPS with invalid_lltv, a value   *)
(* already present with already_enabled and an insertion into a full list  *)
(* with max_lltvs_reached; enable_irm rejects a duplicate with             *)
(* already_enabled and an 11th entry with max_irms_reached; a rejected     *)
(* insertion leaves the list and its length unchanged                      *)
C25_Whitelists == [](WhitelistsBounded /\ (\A l \in LltvChoices : EnableLltvChecked(l)) /\ (\A i \in IrmChoices : EnableIrmChecked(i))) /\ [][WhitelistStep]_vars

(* both whitelists are full and an 11th IRM has just been refused *)
C25_Witness ==
    /\ Len(protocol.enabled_lltvs) = MAX_LLTVS /\ Len(protocol.enabled_irms) = MAX_IRMS
    /\ last.op = "enable_irm" /\ last.err = "max_irms_reached"

-----------------------------------------------------------------------------
(* The market fee *)

FeesCapped == \A m \in DOMAIN markets : markets[m].fee <= 2500

(* What set_fee, called by the owner, does on the accounts as they are *)
SetFeeChecked(m, f) ==
    LET r == set_fee(World, protocol.owner, m, f)
    IN  /\ f > 2500 => r.err = "fee_too_high"
        /\ f <= 2500 => r.err = "ok" /\ r.w.markets = [markets EXCEPT ![m].fee = f]

FeeStep ==
    /\ last'.op = "set_fee" /\ last'.err = "fee_too_high" => markets' = markets
    /\ \A m \in DOMAIN markets :
          markets'[m].fee # markets[m].fee => Committed("set_fee") /\ last'.m = m
    /\ \A m \in DOMAIN markets' \ DOMAIN markets : markets'[m].fee = 0

(* C26: the fee of every market is at most MAX_FEE = 2500 in every         *)
(* reachable state: a market is created with fee 0, set_fee with a fee     *)
(* above 2500 fails with fee_too_high and leaves the fee unchanged, and    *)
(* the fee changes in no other operation                                   *)
C26_FeeCapped == [](MAX_FEE = 2500 /\ FeesCapped /\ \A m \in DOMAIN markets : \A f \in FeeChoices : SetFeeChecked(m, f)) /\ [][FeeStep]_vars

(* a set_fee above the cap has just been refused on a market whose fee is  *)
(* at the cap and which holds supply                                       *)
C26_Witness ==
    /\ last.op = "set_fee" /\ last.err = "fee_too_high"
    /\ markets[last.m].fee = MAX_FEE
    /\ markets[last.m].total_supply_shares > 0

-----------------------------------------------------------------------------
(* The books of one market.  The market is open and both users hold a      *)
(* position, as after the five instructions enable_lltv, enable_irm,       *)
(* create_market and two create_position; every user instruction follows, *)
(* the closing of positions included.                                      *)

InitBooks ==
    /\ protocol = MarketReady.protocol
    /\ markets = MarketReady.markets
    /\ positions = MarketReady.positions
    /\ auths = MarketReady.auths
    /\ vaults = MarketReady.vaults
    /\ now = 1
    /\ price = ORACLE_SCALE
    /\ last = [op |-> "create_position", caller |-> "bob", m |-> Market1,
               owner |-> "bob", err |-> "ok"]
    /\ tx_base = NoTx
    /\ flash = <<>>
    /\ steps = 5
    /\ calc = NoCalc

Close ==
    \/ \E u \in Users : \E k \in DOMAIN positions : ClosePosition(u, Market1, k)
    \/ \E u \in Users : ~HasPosition(Market1, u) /\ CreatePosition(u, Market1, u)

NextBooks == Lend \/ Debt \/ Flash \/ Fees \/ Close \/ Host

SpecBooks == InitBooks /\ [][NextBooks]_vars

Empty(position) ==
    position.supply_shares = 0 /\ position.borrow_shares = 0 /\ position.collateral = 0

(* What close_position answers for signer u and position account k. *)
ClosePositionChecked(u, k) ==
    LET r == close_position(World, k[1], u, k)
        owned == k[2] = u /\ positions[k].owner = u
    IN  /\ r.err = "ok" <=> (owned /\ Empty(positions[k]))
        /\ ~owned => r.err \in {"constraint_seeds", "unauthorized"}
        /\ (owned /\ ~Empty(positions[k])) => r.err = "position_not_empty"
        /\ r.err = "ok" =>
              /\ DOMAIN r.w.positions = DOMAIN positions \ {k}
              /\ \A j \in DOMAIN r.w.positions : r.w.positions[j] = positions[j]
              /\ r.w.markets = markets /\ r.w.vaults = vaults
              /\ r.w.protocol = protocol /\ r.w.auths = auths

(* A position account disappears only in a committed close_position of its *)
(* owner, and it was empty; a refused close_position leaves it in place.   *)
CloseStep ==
    /\ \A k \in DOMAIN positions :
          k \notin DOMAIN positions' =>
              /\ Committed("close_position")
              /\ last'.caller = positions[k].owner /\ last'.owner = k[2]
              /\ Empty(positions[k])
    /\ (last'.op = "close_position" /\ last'.err # "ok") => positions' = positions

-----------------------------------------------------------------------------
(* The loan vault against the books. *)

Backed(m) ==
    vaults[m].loan >= markets[m].total_supply_assets - markets[m].total_borrow_assets

(* C28: whenever a market's flash_loan_lock is 0, its loan vault holds at  *)
(* least total_supply_assets - total_borrow_assets tokens (the model has   *)
(* no direct donations to the vault).                                      *)
C28_LoanVaultBacked == \A m \in DOMAIN markets : markets[m].flash_loan_lock = 0 => Backed(m)

-----------------------------------------------------------------------------
(* The share books of a market against its positions. *)

RECURSIVE SumOf(_, _)
SumOf(f, S) == IF S = {} THEN 0 ELSE LET k == CHOOSE x \in S : TRUE IN f[k] + SumOf(f, S \ {k})

PositionKeys(m) == {k \in DOMAIN positions : k[1] = m}

SupplySharesHeld(m) == SumOf([k \in PositionKeys(m) |-> positions[k].supply_shares], PositionKeys(m))

BorrowSharesHeld(m) == SumOf([k \in PositionKeys(m) |-> positions[k].borrow_shares], PositionKeys(m))

(* C29: in every market the supply shares of its positions plus the        *)
(* pending fee shares add up to total_supply_shares.                       *)
C29_SupplySharesConserved == \A m \in DOMAIN markets : SupplySharesHeld(m) + markets[m].pending_fee_shares = markets[m].total_supply_shares

(* Interest has accrued with a fee: the supplier holds shares and fee      *)
(* shares are pending.                                                     *)
C29_Witness ==
    /\ last.op = "accrue_interest" /\ last.err = "ok"
    /\ markets[Market1].pending_fee_shares > 0 /\ SupplySharesHeld(Market1) > 0

(* C30: in every market the borrow shares of its positions add up to       *)
(* total_borrow_shares.                                                    *)
C30_BorrowSharesConserved == \A m \in DOMAIN markets : BorrowSharesHeld(m) = markets[m].total_borrow_shares

(* A liquidation has just written off bad debt: the borrower is left with  *)
(* nothing and the supply assets are worth less than the shares issued at  *)
(* the initial rate.                                                       *)
C30_Witness ==
    /\ last.op = "liquidate" /\ last.err = "ok"
    /\ positions[<<Market1, "bob">>].collateral = 0
    /\ markets[Market1].total_borrow_shares = 0
    /\ markets[Market1].total_supply_assets * VIRTUAL_SHARES < markets[Market1].total_supply_shares

-----------------------------------------------------------------------------
(* The collateral vault against the positions. *)

CollateralHeld(m) == SumOf([k \in PositionKeys(m) |-> positions[k].collateral], PositionKeys(m))

CollateralOps == {"supply_collateral", "withdraw_collateral", "liquidate"}

(* The collateral vault of a market moves only in a committed              *)
(* supply_collateral, withdraw_collateral or liquidate on that market, and *)
(* by the amount by which the target position's collateral changes.       *)
CollateralStep ==
    \A m \in DOMAIN markets :
        vaults'[m].collateral # vaults[m].collateral =>
            /\ \E op \in CollateralOps : Committed(op)
            /\ last'.m = m
            /\ <<m, last'.owner>> \in DOMAIN positions
            /\ vaults'[m].collateral - vaults[m].collateral
                 = positions'[<<m, last'.owner>>].collateral - positions[<<m, last'.owner>>].collateral

(* C31: a market's collateral vault holds exactly the sum of the           *)
(* collateral of the market's positions (the model has no direct           *)
(* donations), and supply_collateral, withdraw_collateral and liquidate   *)
(* move exactly the amount by which they change position.collateral.      *)
C31_CollateralConserved == [](\A m \in DOMAIN markets : vaults[m].collateral = CollateralHeld(m)) /\ [][CollateralStep]_vars

(* A liquidation has just committed and collateral remains in the vault. *)
C31_Witness ==
    /\ last.op = "liquidate" /\ last.err = "ok"
    /\ vaults[Market1].collateral > 0
    /\ vaults[Market1].collateral < MaxCollateral

-----------------------------------------------------------------------------
(* Repayment.  Alice supplies, bob borrows against collateral and repays   *)
(* by assets or by shares: a single share, or all the shares he owes.      *)

RepayShareChoices == {1} \cup BorrowShareInputs(Market1, "bob")

Repayment ==
    \/ \E a \in Amounts : Supply("alice", Market1, "alice", a, 0)
    \/ \E a \in Amounts : SupplyCollateral("bob", Market1, "bob", a)
    \/ \E a \in Amounts : Borrow("bob", Market1, "bob", NoAuthorization, a, 0)
    \/ \E a \in Amounts : Repay("bob", Market1, "bob", a, 0)
    \/ \E s \in RepayShareChoices : Repay("bob", Market1, "bob", 0, s)

NextDebt == Repayment \/ Tick

SpecDebt == InitBooks /\ [][NextDebt]_vars

(* The repay of every share the position at k owes, at the present time *)
ClearDebt(k) == repay(World, now, k[1], k[2], 0, positions[k].borrow_shares)

(* C32: for every position with borrow_shares > 0, a repay of              *)
(* shares = position.borrow_shares succeeds and leaves the position with   *)
(* borrow_shares = 0.                                                      *)
C32_DebtCanBeCleared == \A k \in DOMAIN positions : positions[k].borrow_shares > 0 => (ClearDebt(k).err = "ok" /\ ClearDebt(k).w.positions[k].borrow_shares = 0)

-----------------------------------------------------------------------------
(* Strangers.  Authorizations are granted, rewritten and revoked while     *)
(* either user withdraws, borrows and withdraws collateral on the other's  *)
(* position and liquidates bob, as the clock and the oracle move.          *)

Seize == \E c \in Users : \E a \in Amounts : Liquidate(c, Market1, "bob", a)

NextGuard == Grant \/ Delegated \/ Seize \/ Host

SpecGuard == InitBooks /\ [][NextGuard]_vars

(* The position at k is liquidatable now: on the accrued totals, at the   *)
(* oracle's price.                                                         *)
Liquidatable(k) ==
    LET acc == accrue(markets[k[1]], now)
    IN  /\ acc.err = "ok" /\ oracle_price_valid(price)
        /\ LET liq == is_liquidatable(positions[k].collateral, positions[k].borrow_shares,
                                      acc.market.total_borrow_assets,
                                      acc.market.total_borrow_shares,
                                      price, acc.market.lltv)
           IN  liq.err = "ok" /\ liq.v

(* What the signer of the step did to the position at k, being neither    *)
(* its owner nor a valid delegate of its owner.                            *)
StrangerStep(k) ==
    /\ positions'[k].supply_shares >= positions[k].supply_shares
    /\ positions'[k].borrow_shares <= positions[k].borrow_shares
    /\ positions'[k].collateral < positions[k].collateral =>
          /\ Committed("liquidate") /\ last'.m = k[1] /\ last'.owner = k[2]
          /\ Liquidatable(k)

(* C33: an instruction whose signer is neither the owner of a position nor *)
(* a validly authorized delegate of the owner does not decrease the        *)
(* position's supply_shares nor increase its borrow_shares, and decreases  *)
(* its collateral only as a liquidate of a position that is liquidatable   *)
(* at that moment.                                                         *)
C33_StrangersCannotTake == [][\A k \in DOMAIN positions : (k \in DOMAIN positions' /\ ~Accepted(World, now, last'.caller, positions[k].owner)) => StrangerStep(k)]_vars

(* Alice, who holds an authorization account of bob that is not valid,    *)
(* has just liquidated bob's position.                                     *)
C33_Witness ==
    /\ last.op = "liquidate" /\ last.err = "ok" /\ last.caller = "alice" /\ last.owner = "bob"
    /\ <<"bob", "alice">> \in DOMAIN auths
    /\ ~Accepted(World, now, "alice", "bob")
    /\ positions[<<Market1, "bob">>].collateral < MaxCollateral

-----------------------------------------------------------------------------
(* The two-instruction flash loan, start to end. *)

(* ceil(a * 5 / 10000) *)
FlashFee(a) == (a * 5 + 9999) \div 10000

FeeSamples == {1, 1999, 2000, 2001, 100000, 200000}

(* flash_loan_start(m, a) from the present accounts, then                  *)
(* flash_loan_end(m, a) on what it leaves.                                 *)
RoundTripChecked(m, a) ==
    LET s == flash_loan_start(World, m, a)
        e == flash_loan_end(s.w, m, a)
    IN  s.err = "ok" =>
          /\ s.w.markets[m].flash_loan_lock = 1
          /\ s.w.vaults[m].loan = vaults[m].loan - a
          /\ e.err = "ok"
          /\ e.w.vaults[m].loan - s.w.vaults[m].loan = a + FlashFee(a)
          /\ e.w.markets[m] = [markets[m] EXCEPT !.total_supply_assets = @ + FlashFee(a)]
          /\ e.w.markets[m].flash_loan_lock = 0
          /\ e.w.positions = positions
          /\ e.w.vaults[m].collateral = vaults[m].collateral

EndRefusedUnlocked(m) ==
    markets[m].flash_loan_lock = 0 =>
        \A b \in {0} \cup Amounts :
            flash_loan_end(World, m, b) = Fail("flash_loan_callback_failed")

(* A committed flash_loan_end takes the market from locked to unlocked,   *)
(* pulls some b + fee(b) into the loan vault and adds fee(b) to           *)
(* total_supply_assets, and writes nothing else; a refused one writes     *)
(* nothing.                                                                *)
FlashEndStep ==
    /\ Committed("flash_loan_end") =>
          /\ markets[last'.m].flash_loan_lock = 1
          /\ \E b \in {0} \cup Amounts :
                /\ vaults' = [vaults EXCEPT ![last'.m].loan = @ + b + FlashFee(b)]
                /\ markets' = [markets EXCEPT ![last'.m].total_supply_assets = @ + FlashFee(b),
                                              ![last'.m].flash_loan_lock = 0]
          /\ positions' = positions
    /\ (last'.op = "flash_loan_end" /\ last'.err # "ok") => UNCHANGED Accounts

(* C34: flash_loan_start(M, a) followed by flash_loan_end(M, a) pulls      *)
(* exactly a + fee from the borrower with fee = ceil(a * 5 / 10000), adds  *)
(* exactly fee to total_supply_assets, leaves the share totals, the borrow *)
(* totals and all positions unchanged and returns flash_loan_lock to 0;    *)
(* flash_loan_end invoked while the lock is 0 fails and changes nothing.   *)
C34_FlashLoanRoundTrip == [](/\ \A a \in FeeSamples : mul_div_up(a, FLASH_LOAN_FEE_BPS, BPS) = FlashFee(a)
                             /\ \A m \in DOMAIN markets : EndRefusedUnlocked(m) /\ \A a \in Amounts : RoundTripChecked(m, a)) /\ [][FlashEndStep]_vars

(* A flash loan has just been ended with the amount and the fee repaid:   *)
(* the vault covers the books again, the supply assets have grown past    *)
(* the shares' initial rate, and a further flash_loan_end is refused.     *)
C34_Witness ==
    /\ last.op = "flash_loan_end" /\ last.err = "ok"
    /\ markets[Market1].flash_loan_lock = 0
    /\ vaults[Market1].loan = markets[Market1].total_supply_assets - markets[Market1].total_borrow_assets
    /\ markets[Market1].total_borrow_assets = 0
    /\ markets[Market1].total_supply_assets * VIRTUAL_SHARES > markets[Market1].total_supply_shares
    /\ flash_loan_end(World, Market1, 1).err = "flash_loan_callback_failed"

-----------------------------------------------------------------------------
(* Computations, second part.  accrue_interest_on_market, the compound     *)
(* factor and the two multiply-then-divide functions are applied to        *)
(* arguments drawn at the start.                                           *)

AccrueBorrows == {0, 1, 3, 400}
AccrueIdle == {0, 100}
AccrueShares == {1000000, 3000000}
AccrueFees == {0, 1000, MAX_FEE}
AccruePending == {0, 7}
AccrueTimes == {1, 2, 21}
AccrueRates == {0, 1, 5, 20}

(* Markets last updated at time 1 *)
AccrueMarkets ==
    {[Opened.markets[Market1] EXCEPT !.total_borrow_assets = b,
                                     !.total_borrow_shares = b * 1000,
                                     !.total_supply_assets = b + l,
                                     !.total_supply_shares = s,
                                     !.fee = f,
                                     !.pending_fee_shares = p,
                                     !.last_update = 1] :
        b \in AccrueBorrows, l \in AccrueIdle, s \in AccrueShares, f \in AccrueFees,
        p \in AccruePending}

AccrueInputs ==
    {[kind |-> "accrue", x |-> x, y |-> y, z |-> z, out |-> <<>>] :
        x \in AccrueRates, y \in AccrueTimes, z \in AccrueMarkets}

AccrueOnMarket ==
    /\ calc.kind = "accrue" /\ calc.out = <<>>
    /\ calc' = [calc EXCEPT !.out = <<accrue_interest_on_market(calc.z, calc.y, calc.x)>>]
    /\ UNCHANGED <<protocol, markets, positions, auths, vaults, now, price, last, tx_base,
                   flash, steps>>

TaylorRates == {0, 1, 5, 20, 100}
TaylorTimes == {0, 1, 20, 100}

TaylorInputs ==
    {[kind |-> "taylor", x |-> x, y |-> y, z |-> 0, out |-> <<>>] :
        x \in TaylorRates, y \in TaylorTimes}

Taylor ==
    /\ calc.kind = "taylor" /\ calc.out = <<>>
    /\ calc' = [calc EXCEPT !.out = <<w_taylor_compounded(calc.x, calc.y)>>]
    /\ UNCHANGED <<protocol, markets, positions, auths, vaults, now, price, last, tx_base,
                   flash, steps>>

MulDivFactors == {0, 1, 2, 3, 100, 200, 46340, 46341, 65536, U128_MAX \div 2, U128_MAX - 1, U128_MAX}
MulDivDivisors == {0, 1, 2, 3, 200, 300, U128_MAX}

MulDivInputs ==
    {[kind |-> "mul_div", x |-> x, y |-> y, z |-> z, out |-> <<>>] :
        x \in MulDivFactors, y \in MulDivFactors, z \in MulDivDivisors}

MulDiv ==
    /\ calc.kind = "mul_div" /\ calc.out = <<>>
    /\ calc' = [calc EXCEPT !.out = <<mul_div_down(calc.x, calc.y, calc.z),
                                      mul_div_up(calc.x, calc.y, calc.z)>>]
    /\ UNCHANGED <<protocol, markets, positions, auths, vaults, now, price, last, tx_base,
                   flash, steps>>

InitCalc ==
    /\ protocol = initialize(Admin, "alice")
    /\ markets = <<>>
    /\ positions = <<>>
    /\ auths = <<>>
    /\ vaults = <<>>
    /\ now = 1
    /\ price = ORACLE_SCALE
    /\ last = [op |-> "initialize", caller |-> Admin, m |-> NoMarket,
               owner |-> DefaultPubkey, err |-> "ok"]
    /\ tx_base = NoTx
    /\ flash = <<>>
    /\ steps = 0
    /\ (calc \in AccrueInputs \/ calc \in TaylorInputs \/ calc \in MulDivInputs)

NextCalc == AccrueOnMarket \/ Taylor \/ MulDiv

SpecCalc == InitCalc /\ [][NextCalc]_vars

(* The accrual as the specification writes it, in plain arithmetic. *)
SpecFactor(rate, elapsed) ==
    LET rt == rate * elapsed
        sq == (rt * rt) \div WAD
    IN  rt + sq \div 2 + ((sq * rt) \div WAD) \div 6

SpecInterest(market, t, rate) ==
    (market.total_borrow_assets * SpecFactor(rate, t - market.last_update)) \div WAD

SpecFeeAmount(market, interest) == (interest * market.fee) \div BPS

SpecFeeShares(market, interest) ==
    IF market.fee > 0
    THEN (SpecFeeAmount(market, interest) * (market.total_supply_shares + VIRTUAL_SHARES))
            \div (market.total_supply_assets + interest - SpecFeeAmount(market, interest)
                    + VIRTUAL_ASSETS)
    ELSE 0

AccrualAsSpecified(market, t, rate, r) ==
    LET interest == SpecInterest(market, t, rate)
        fee_shares == SpecFeeShares(market, interest)
    IN  (r.err = "ok" /\ t > market.last_update) =>
          IF market.total_borrow_assets > 0 /\ interest > 0
          THEN /\ r.interest = interest /\ r.fee_shares = fee_shares
               /\ r.market = [market EXCEPT !.total_borrow_assets = @ + interest,
                                            !.total_supply_assets = @ + interest,
                                            !.total_supply_shares = @ + fee_shares,
                                            !.pending_fee_shares = @ + fee_shares,
                                            !.last_update = t]
               /\ available_liquidity(r.market) = available_liquidity(market)
          ELSE /\ r.interest = 0 /\ r.fee_shares = 0
               /\ r.market = [market EXCEPT !.last_update = t]

Accrued == calc.kind = "accrue" /\ calc.out # <<>>

(* C35: for now > last_update and total_borrow_assets > 0 the accrual      *)
(* computes interest = floor(TBA * factor / WAD) with factor = rt +        *)
(* rt^2/2 + rt^3/6 (powers normalised by WAD, divisions rounded down);     *)
(* with interest > 0 it adds the interest to both asset totals, leaves     *)
(* total_borrow_shares alone and, with fee > 0, mints fee_shares =         *)
(* to_shares_down(fee_amount, TSA after interest - fee_amount, TSS), added *)
(* to total_supply_shares and pending_fee_shares; it sets last_update and  *)
(* returns (interest, fee_shares); with total_borrow_assets = 0 it only    *)
(* sets last_update.                                                       *)
C35_AccrualFormula == Accrued => AccrualAsSpecified(calc.z, calc.y, calc.x, calc.out[1])

(* An accrual over 20 seconds with all three terms of the factor at work  *)
(* has minted fee shares.                                                  *)
C35_Witness ==
    /\ Accrued /\ calc.out[1].err = "ok"
    /\ calc.y = 21 /\ calc.x = 5 /\ calc.z.total_borrow_assets = 3
    /\ calc.out[1].interest = 4 /\ calc.out[1].fee_shares > 0
    /\ calc.out[1].market.pending_fee_shares = 7 + calc.out[1].fee_shares

-----------------------------------------------------------------------------
(* What repay burns and pulls. *)

(* Shares asked for beside the whole debt: one, half a unit, one too many *)
RepayShareProbes(k) == {1, VIRTUAL_SHARES \div 2, positions[k].borrow_shares, positions[k].borrow_shares + 1}

(* repay of `assets` or of `shares` (the other being 0) on the position   *)
(* at k: acc is the accrual it starts with, r its outcome.                *)
RepayChecked(k, assets, shares, acc, r) ==
    LET market == acc.market
        requested == IF assets > 0
                     THEN to_shares_down(assets, market.total_borrow_assets,
                                         market.total_borrow_shares)
                     ELSE shares
        burned == min(requested, positions[k].borrow_shares)
        amount == to_assets_up(burned, market.total_borrow_assets,
                               market.total_borrow_shares)
    IN  acc.err = "ok" =>
          /\ burned = 0 => r = Fail("zero_amount")
          /\ r.err = "ok" =>
                /\ burned > 0 /\ burned <= positions[k].borrow_shares
                /\ r.w.positions[k].borrow_shares = positions[k].borrow_shares - burned
                /\ r.w.markets[k[1]].total_borrow_shares = market.total_borrow_shares - burned
                /\ r.w.markets[k[1]].total_borrow_assets = market.total_borrow_assets - amount
                /\ r.w.vaults[k[1]].loan = vaults[k[1]].loan + amount
                /\ assets > 0 => amount <= assets
          /\ requested > positions[k].borrow_shares =>
                r = repay(World, now, k[1], k[2], 0, positions[k].borrow_shares)

(* C36: repay never burns more than the position owes: the shares asked    *)
(* for, or derived with to_shares_down from the assets asked for, are      *)
(* clamped to position.borrow_shares; the position's borrow_shares and     *)
(* total_borrow_shares fall by exactly the burned shares,                  *)
(* total_borrow_assets falls by to_assets_up(burned shares), which is the  *)
(* amount pulled from the repayer and, when repaying by assets, is at most *)
(* the assets asked for; a repay that would burn 0 shares fails with       *)
(* zero_amount.                                                            *)
C36_RepayClamped == \A k \in DOMAIN positions : /\ \A a \in Amounts \cup {MaxSupply + 1} : RepayChecked(k, a, 0, accrue(markets[k[1]], now), repay(World, now, k[1], k[2], a, 0))
                                                /\ \A s \in RepayShareProbes(k) \ {0} : RepayChecked(k, 0, s, accrue(markets[k[1]], now), repay(World, now, k[1], k[2], 0, s))

(* Bob has just repaid all he owed, at a time when interest had accrued;   *)
(* a further repay fails with zero_amount.                                 *)
C36_Witness ==
    /\ last.op = "repay" /\ last.err = "ok" /\ last.owner = "bob"
    /\ positions[<<Market1, "bob">>].borrow_shares = 0
    /\ markets[Market1].last_update > 1
    /\ markets[Market1].total_supply_assets * VIRTUAL_SHARES > markets[Market1].total_supply_shares
    /\ repay(World, now, Market1, "bob", 1, 0) = Fail("zero_amount")

-----------------------------------------------------------------------------
(* The first deposit. *)

FirstDepositAmounts == {1, 2, 3, 1000}

FirstDepositChecked(k, a) ==
    LET m == k[1]
        r == supply(World, now, m, k[2], a, 0)
    IN  /\ r.err = "ok"
        /\ r.w.positions[k].supply_shares = positions[k].supply_shares + a * VIRTUAL_SHARES
        /\ r.w.markets[m].total_supply_assets = a
        /\ r.w.markets[m].total_supply_shares = a * VIRTUAL_SHARES

(* C37: a supply of a > 0 assets into a market with total_supply_assets =  *)
(* total_supply_shares = 0 credits exactly a * 10^6 shares to the position *)
(* and leaves total_supply_assets = a and total_supply_shares = a * 10^6   *)
(* (a = 1000 gives 10^9 shares).                                           *)
C37_FirstDeposit == /\ VIRTUAL_SHARES = 1000000 /\ to_shares_down(1000, 0, 0) = 1000000000
                    /\ \A k \in DOMAIN positions : (markets[k[1]].total_supply_assets = 0 /\ markets[k[1]].total_supply_shares = 0) => \A a \in FirstDepositAmounts : FirstDepositChecked(k, a)

(* The first instruction on the new market was a supply of 2: the market   *)
(* and alice's position hold 2 * 10^6 shares for 2 assets.                 *)
C37_Witness ==
    /\ steps = 6 /\ last.op = "supply" /\ last.err = "ok"
    /\ markets[Market1].total_supply_assets = 2
    /\ markets[Market1].total_supply_shares = 2000000
    /\ positions[<<Market1, "alice">>].supply_shares = 2000000

-----------------------------------------------------------------------------
(* Slippage.  Alice supplies and bob borrows against collateral, each with *)
(* a bound on the shares of the instruction, while interest accrues.       *)

SlippageBounds == {0, 999999, 1000000, 2000000}

Slippage ==
    \/ \E a \in Amounts, b \in SlippageBounds : Supply("alice", Market1, "alice", a, b)
    \/ \E a \in Amounts : SupplyCollateral("bob", Market1, "bob", a)
    \/ \E a \in Amounts, b \in SlippageBounds :
           Borrow("bob", Market1, "bob", NoAuthorization, a, b)

NextSlippage == Slippage \/ Tick

SpecSlippage == InitBooks /\ [][NextSlippage]_vars

SlippageProbes == SlippageBounds \cup {1, 500000, 1000001, 3000000}

(* supply of a with min_shares = b at k, against the shares computed on    *)
(* the accrued totals *)
SupplyBoundChecked(k, a, b, acc) ==
    LET shares == to_shares_down(a, acc.market.total_supply_assets, acc.market.total_supply_shares)
        r == supply(World, now, k[1], k[2], a, b)
    IN  ~IsErr(shares) => ((r.err = "slippage_exceeded") <=> (shares < b))

(* borrow of a with max_shares = b by the owner of k *)
BorrowBoundChecked(k, a, b, acc) ==
    LET shares == to_shares_up(a, acc.market.total_borrow_assets, acc.market.total_borrow_shares)
        r == borrow(World, now, price, k[2], k[1], k[2], NoAuthorization, a, b)
    IN  (a <= available_liquidity(acc.market) /\ ~IsErr(shares))
            => ((r.err = "slippage_exceeded") <=> (b > 0 /\ shares > b))

BoundsChecked(k) ==
    LET acc == accrue(markets[k[1]], now)
    IN  acc.err = "ok" => \A a \in Amounts, b \in SlippageProbes :
            SupplyBoundChecked(k, a, b, acc) /\ BorrowBoundChecked(k, a, b, acc)

SlippageStep == (last'.op \in {"supply", "borrow"} /\ last'.err = "slippage_exceeded") => UNCHANGED Accounts

(* C38: supply fails with slippage_exceeded exactly when the shares it     *)
(* would credit are < min_shares; borrow fails with slippage_exceeded      *)
(* exactly when max_shares > 0 and the shares it would debit are >         *)
(* max_shares (max_shares = 0 disables the bound); in both failure cases   *)
(* no position or market field changes.                                    *)
C38_SlippageBounds == [](\A k \in DOMAIN positions : BoundsChecked(k)) /\ [][SlippageStep]_vars

(* A supply of alice was refused for its bound while bob is in debt and    *)
(* the interest due at the present time makes a unit of assets worth less  *)
(* than 10^6 shares.                                                       *)
C38_Witness ==
    /\ last.op = "supply" /\ last.err = "slippage_exceeded"
    /\ positions[<<Market1, "bob">>].borrow_shares > 0
    /\ to_shares_down(1, accrue(markets[Market1], now).market.total_supply_assets, accrue(markets[Market1], now).market.total_supply_shares) < VIRTUAL_SHARES
-----------------------------------------------------------------------------
(* Accrual at a zero borrow rate. *)

Computed(kind) == calc.kind = kind /\ calc.out # <<>>

ZeroRateAccrual ==
    (Computed("accrue") /\ calc.x = 0) =>
        /\ calc.out[1].err = "ok"
        /\ calc.out[1].interest = 0 /\ calc.out[1].fee_shares = 0
        /\ calc.out[1].market = [calc.z EXCEPT !.last_update = calc.y]

ZeroFactor == (Computed("taylor") /\ (calc.x = 0 \/ calc.y = 0)) => calc.out[1] = 0

(* C39: under a zero borrow rate, interest accrual leaves                  *)
(* total_supply_assets and total_borrow_assets (and both share totals and  *)
(* pending_fee_shares) unchanged for any elapsed time, only advancing      *)
(* last_update; the compound factor is 0 whenever rate = 0 or elapsed = 0. *)
C39_ZeroRate == ZeroRateAccrual /\ ZeroFactor

(* An accrual at rate 0 over 20 seconds on a market with 400 borrowed, the *)
(* maximal fee and pending fee shares: only last_update moved.             *)
C39_Witness ==
    /\ Computed("accrue") /\ calc.x = 0 /\ calc.y = 21
    /\ calc.z.total_borrow_assets = 400 /\ calc.z.fee = MAX_FEE
    /\ calc.z.pending_fee_shares = 7 /\ calc.z.last_update = 1
    /\ calc.out[1].market.last_update = 21
    /\ calc.out[1].market.total_borrow_assets = 400

-----------------------------------------------------------------------------
(* mul_div_down and mul_div_up against the exact quotient. *)

Fits(a, b) == a = 0 \/ b = 0 \/ a <= U128_MAX \div b

Floor(a, b, c) == (a * b) \div c

Ceil(a, b, c) == (a * b) \div c + (IF (a * b) % c = 0 THEN 0 ELSE 1)

MulDivDownChecked(a, b, c, down) ==
    /\ c = 0 => down = E_DivisionByZero
    /\ (c > 0 /\ Fits(a, b)) => down = Floor(a, b, c)
    /\ down = E_MathOverflow => ~Fits(a, b)

MulDivUpChecked(a, b, c, up) ==
    /\ c = 0 => up = E_DivisionByZero
    /\ (c > 0 /\ Fits(a, b)) => up = Ceil(a, b, c)
    /\ up = E_MathOverflow => ~Fits(a, b)

(* C40: with c > 0 and a * b within the width, mul_div_down(a, b, c) =     *)
(* floor(a * b / c) and mul_div_up(a, b, c) = ceil(a * b / c); both are 0  *)
(* when a = 0 or b = 0 and c > 0; both fail with division_by_zero when     *)
(* c = 0 and fail with math_overflow only when a * b does not fit.         *)
C40_MulDiv == Computed("mul_div") => (MulDivDownChecked(calc.x, calc.y, calc.z, calc.out[1]) /\ MulDivUpChecked(calc.x, calc.y, calc.z, calc.out[2]))

====
